---------------------------- MODULE Spec2Model ----------------------------
(***************************************************************************)
(* A state-machine model of the head-tracking off-axis projection          *)
(* pipeline: the One-Euro scalar filter and its three-axis wrapper         *)
(* (Smoothing.js), the HeadPoseEstimator (HeadPoseEstimator.js) and the    *)
(* OffAxisCamera / SceneManager pair (OffAxisCamera.js, SceneManager.js,   *)
(* KooimaProjection.js), the two projection solvers of KooimaProjection.js *)
(* evaluated one activation at a time, and the render loop of main.js over *)
(* the FaceTracker's latest result (FaceTracker.js).                       *)
(*                                                                         *)
(* Numbers.  JavaScript numbers are modelled as fixed-point integers with  *)
(* two decimals: the integer n stands for n / ONE.    Every product and    *)
(* quotient is rounded to the nearest representable value, as every IEEE   *)
(* operation is.  Lengths are millimetres, times are seconds, landmark     *)
(* coordinates are normalised image coordinates.                           *)
(*                                                                         *)
(* null.  A nullable field is a sequence of length 0 (null) or 1 (a value).*)
(***************************************************************************)
EXTENDS Integers, Sequences, FiniteSets, TLC

VARIABLES
    oef,      \* one OneEuroFilter instance driven through its public API
    oefCall,  \* the last call made on oef: operation, arguments, result, state before
    v3,       \* one Vector3OneEuroFilter instance driven through its public API
    v3Twin,   \* a Vector3OneEuroFilter constructed anew at the last reset() of v3
    v3Call,   \* the last call made on v3 (and on v3Twin)
    est,      \* one HeadPoseEstimator instance (it owns its Vector3OneEuroFilter)
    now,      \* performance.now() / 1000, the clock estimate() reads
    estCall,  \* the last call made on est
    cam,      \* one OffAxisCamera (and the THREE.PerspectiveCamera it wraps)
    scene,    \* the SceneManager built on cam: renderer size, last rendered frame
    camCall,  \* the last call made on cam or scene
    solver,   \* one call of a projection solver, activation by activation
    tracker,  \* the FaceTracker of the application: its latest detection result
    tick,     \* the last pass of the application's render loop
    ft,       \* one FaceTracker, the init() call made on it and the browser's
              \* animation frames and video clock
    ftCall    \* the last step taken on ft

oefVars == <<oef, oefCall>>
v3Vars  == <<v3, v3Twin, v3Call>>
estVars == <<est, now, estCall>>
camVars == <<cam, scene, camCall>>
solverVars == <<solver>>
appVars == <<tracker, tick>>
ftVars  == <<ft, ftCall>>
vars    == <<oef, oefCall, v3, v3Twin, v3Call, est, now, estCall, cam, scene, camCall,
             solver, tracker, tick, ft, ftCall>>

---------------------------------------------------------------------------
(* Fixed-point arithmetic *)

\* The value 1.0: two decimals.
ONE == 100

None == <<>>
Some(x) == <<x>>
\* The value of a non-null field.
Val(o) == o[1]

Abs(n) == IF n < 0 THEN -n ELSE n

\* The arithmetic below is written as functions of its operands, so that an
\* operand is evaluated once, before the operation, as JavaScript does.

\* n / d rounded to the nearest integer (halves away from zero), d /= 0.
RoundF[n \in Int, d \in Int] ==
    LET q == (2 * Abs(n) + Abs(d)) \div (2 * Abs(d))
    IN  IF (n < 0) = (d < 0) THEN q ELSE -q

Round(n, d) == RoundF[n, d]

\* a * b on fixed-point values: Round(a * b, ONE), the product taken in two parts
\* so that it stays within TLC's 32-bit integers.
MulF[a \in Int, b \in Int] ==
    LET m == Abs(a) * (Abs(b) \div ONE) + RoundF[Abs(a) * (Abs(b) % ONE), ONE]
    IN  IF (a < 0) = (b < 0) THEN m ELSE -m

Mul(a, b) == MulF[a, b]

\* a / b on fixed-point values, b /= 0: Round(a * ONE, b), by long division.
DivF[a \in Int, b \in Int] ==
    LET q == (Abs(a) \div Abs(b)) * ONE + RoundF[(Abs(a) % Abs(b)) * ONE, Abs(b)]
    IN  IF (a < 0) = (b < 0) THEN q ELSE -q

Div(a, b) == DivF[a, b]

\* The largest r in lo..hi with r * r <= n.
SqrtSearch[n \in Nat, lo \in Nat, hi \in Nat] ==
    IF lo >= hi THEN lo
    ELSE IF ((lo + hi + 1) \div 2) * ((lo + hi + 1) \div 2) <= n
         THEN SqrtSearch[n, (lo + hi + 1) \div 2, hi]
         ELSE SqrtSearch[n, lo, (lo + hi + 1) \div 2 - 1]

\* Math.sqrt on a fixed-point value a >= 0: sqrt(a / ONE) * ONE, rounded down.
Sqrt(a) == SqrtSearch[a * ONE, 0, 46340]

---------------------------------------------------------------------------
(* Smoothing.js: LowPassFilter *)

\* A variant of LowPassFilter.filter that adds the weighted sample to the whole
\* previous value.
LowPassFilter_filter_noDecay(prev, x, alpha) ==
    IF prev = None
    THEN [prev |-> Some(x), ret |-> x]
    ELSE LET filtered == Mul(alpha, x) + Val(prev)
         IN  [prev |-> Some(filtered), ret |-> filtered]

\* LowPassFilter.filter(x, alpha) on a filter whose _prev is prev:
\* the new _prev and the value returned.
LowPassFilter_filter(prev, x, alpha) ==
    IF prev = None
    THEN [prev |-> Some(x), ret |-> x]
    ELSE LET filtered == Mul(alpha, x) + Mul(ONE - alpha, Val(prev))
         IN  [prev |-> Some(filtered), ret |-> filtered]

---------------------------------------------------------------------------
(* Smoothing.js: OneEuroFilter *)

\* 2 * Math.PI
TWO_PI == 628

\* new OneEuroFilter({minCutoff, beta, dCutoff})
OneEuroFilter_new(p) ==
    [minCutoff |-> p.minCutoff, beta |-> p.beta, dCutoff |-> p.dCutoff,
     xPrev |-> None, dxPrev |-> None, tPrev |-> None]

\* OneEuroFilter._alpha(cutoff, dt)
OneEuroFilter_alpha(cutoff, dt) ==
    LET tau == Div(ONE, Mul(TWO_PI, cutoff))
    IN  Div(ONE, ONE + Div(tau, dt))

\* A first call that seeds the derivative filter with the sample, not with 0.
OneEuroFilter_filter_first_dxSeed(f, x, timestamp) ==
    [f |-> [f EXCEPT !.tPrev = Some(timestamp),
                     !.xPrev = LowPassFilter_filter(f.xPrev, x, ONE).prev,
                     !.dxPrev = LowPassFilter_filter(f.dxPrev, x, ONE).prev],
     ret |-> x]

\* OneEuroFilter.filter, the branch taken when _tPrev is null (the first call):
\* this._tPrev = timestamp; _xFilter.filter(x, 1.0); _dxFilter.filter(0, 1.0); return x
OneEuroFilter_filter_first(f, x, timestamp) ==
    [f |-> [f EXCEPT !.tPrev = Some(timestamp),
                     !.xPrev = LowPassFilter_filter(f.xPrev, x, ONE).prev,
                     !.dxPrev = LowPassFilter_filter(f.dxPrev, 0, ONE).prev],
     ret |-> x]

\* OneEuroFilter.filter, the part after the dt guard (dt > 0): the derivative is
\* estimated and smoothed, the cutoff adapted to it, the value smoothed, the
\* timestamp stored.
OneEuroFilter_filter_step(f, x, timestamp, dt) ==
    \* d: _dxFilter.filter(dx, alphaDx); r: _xFilter.filter(x, alpha)
    LET Result(d, r) ==
            [f |-> [f EXCEPT !.tPrev = Some(timestamp), !.dxPrev = d.prev,
                             !.xPrev = r.prev],
             ret |-> r.ret]
        Smooth(d) ==
            Result(d, LowPassFilter_filter(f.xPrev, x,
                         OneEuroFilter_alpha(f.minCutoff + Mul(f.beta, Abs(d.ret)), dt)))
    IN  Smooth(LowPassFilter_filter(f.dxPrev, Div(x - Val(f.xPrev), dt),
                                    OneEuroFilter_alpha(f.dCutoff, dt)))

\* A filter() that records the timestamp before the dt guard.
OneEuroFilter_filter_stampFirst(f, x, timestamp) ==
    IF f.tPrev = None
    THEN OneEuroFilter_filter_first(f, x, timestamp)
    ELSE LET dt == timestamp - Val(f.tPrev)
         IN  IF dt <= 0
             THEN [f |-> [f EXCEPT !.tPrev = Some(timestamp)], ret |-> Val(f.xPrev)]
             ELSE OneEuroFilter_filter_step(f, x, timestamp, dt)

\* OneEuroFilter.filter(x, timestamp) on the filter f: the filter after the
\* call and the value returned.
OneEuroFilter_filter(f, x, timestamp) ==
    IF f.tPrev = None
    THEN OneEuroFilter_filter_first(f, x, timestamp)
    ELSE LET dt == timestamp - Val(f.tPrev)
         IN  IF dt <= 0
             THEN [f |-> f, ret |-> Val(f.xPrev)]
             ELSE OneEuroFilter_filter_step(f, x, timestamp, dt)

\* A variant of reset that clears the two low-pass filters and keeps the stored
\* timestamp.
OneEuroFilter_reset_keepStamp(f) ==
    [f EXCEPT !.xPrev = None, !.dxPrev = None]

\* OneEuroFilter.reset()
OneEuroFilter_reset(f) ==
    [f EXCEPT !.xPrev = None, !.dxPrev = None, !.tPrev = None]

---------------------------------------------------------------------------
(* Smoothing.js: Vector3OneEuroFilter *)

\* const DEFAULT_DEAD_ZONE = 2.0 (mm)
DEFAULT_DEAD_ZONE == 200

\* new Vector3OneEuroFilter({minCutoff, beta, dCutoff, deadZone})
Vector3OneEuroFilter_new(p) ==
    LET opts == [minCutoff |-> p.minCutoff, beta |-> p.beta, dCutoff |-> p.dCutoff]
    IN  [filterX |-> OneEuroFilter_new(opts),
         filterY |-> OneEuroFilter_new(opts),
         filterZ |-> OneEuroFilter_new(opts),
         deadZone |-> p.deadZone,
         lastOutput |-> None]

\* Math.sqrt(dx * dx + dy * dy + dz * dz) for the difference of two points.
Distance(a, b) ==
    LET dx == a.x - b.x
        dy == a.y - b.y
        dz == a.z - b.z
    IN  Sqrt(Mul(dx, dx) + Mul(dy, dy) + Mul(dz, dz))

\* A variant of filter that remembers the suppressed point: inside the dead zone
\* it returns the point emitted before but stores the newly filtered one.
Vector3OneEuroFilter_filter_remember(v, pos, timestamp) ==
    LET Emit(w, filtered) ==
            IF /\ v.deadZone > 0
               /\ v.lastOutput /= None
               /\ Distance(filtered, Val(v.lastOutput)) < v.deadZone
            THEN [v |-> [w EXCEPT !.lastOutput = Some(filtered)],
                  ret |-> Val(v.lastOutput), filtered |-> filtered]
            ELSE [v |-> [w EXCEPT !.lastOutput = Some(filtered)], ret |-> filtered,
                  filtered |-> filtered]
        Axes(rx, ry, rz) ==
            Emit([v EXCEPT !.filterX = rx.f, !.filterY = ry.f, !.filterZ = rz.f],
                 [x |-> rx.ret, y |-> ry.ret, z |-> rz.ret])
    IN  Axes(OneEuroFilter_filter(v.filterX, pos.x, timestamp),
             OneEuroFilter_filter(v.filterY, pos.y, timestamp),
             OneEuroFilter_filter(v.filterZ, pos.z, timestamp))

\* A variant of filter in which a suppressed call leaves the axis filters as they
\* were.
Vector3OneEuroFilter_filter_holdAxes(v, pos, timestamp) ==
    LET Emit(w, filtered) ==
            IF /\ v.deadZone > 0
               /\ v.lastOutput /= None
               /\ Distance(filtered, Val(v.lastOutput)) < v.deadZone
            THEN [v |-> v, ret |-> Val(v.lastOutput), filtered |-> filtered]
            ELSE [v |-> [w EXCEPT !.lastOutput = Some(filtered)], ret |-> filtered,
                  filtered |-> filtered]
        Axes(rx, ry, rz) ==
            Emit([v EXCEPT !.filterX = rx.f, !.filterY = ry.f, !.filterZ = rz.f],
                 [x |-> rx.ret, y |-> ry.ret, z |-> rz.ret])
    IN  Axes(OneEuroFilter_filter(v.filterX, pos.x, timestamp),
             OneEuroFilter_filter(v.filterY, pos.y, timestamp),
             OneEuroFilter_filter(v.filterZ, pos.z, timestamp))

\* Vector3OneEuroFilter.filter(pos, timestamp) on the filter v: the filter after
\* the call, the point returned, and the local `filtered` (the per-axis outputs).
Vector3OneEuroFilter_filter(v, pos, timestamp) ==
    \* w: v with its axis filters advanced; filtered: the per-axis outputs
    LET Emit(w, filtered) ==
            IF /\ v.deadZone > 0
               /\ v.lastOutput /= None
               /\ Distance(filtered, Val(v.lastOutput)) < v.deadZone
            THEN [v |-> w, ret |-> Val(v.lastOutput), filtered |-> filtered]
            ELSE [v |-> [w EXCEPT !.lastOutput = Some(filtered)], ret |-> filtered,
                  filtered |-> filtered]
        Axes(rx, ry, rz) ==
            Emit([v EXCEPT !.filterX = rx.f, !.filterY = ry.f, !.filterZ = rz.f],
                 [x |-> rx.ret, y |-> ry.ret, z |-> rz.ret])
    IN  Axes(OneEuroFilter_filter(v.filterX, pos.x, timestamp),
             OneEuroFilter_filter(v.filterY, pos.y, timestamp),
             OneEuroFilter_filter(v.filterZ, pos.z, timestamp))

\* A variant of reset that keeps the last emitted point.
Vector3OneEuroFilter_reset_keepOutput(v) ==
    [v EXCEPT !.filterX = OneEuroFilter_reset(v.filterX),
              !.filterY = OneEuroFilter_reset(v.filterY),
              !.filterZ = OneEuroFilter_reset(v.filterZ)]

\* A variant of reset that leaves the depth axis filter as it is.
Vector3OneEuroFilter_reset_skipZ(v) ==
    [v EXCEPT !.filterX = OneEuroFilter_reset(v.filterX),
              !.filterY = OneEuroFilter_reset(v.filterY),
              !.lastOutput = None]

\* Vector3OneEuroFilter.reset()
Vector3OneEuroFilter_reset(v) ==
    [v EXCEPT !.filterX = OneEuroFilter_reset(v.filterX),
              !.filterY = OneEuroFilter_reset(v.filterY),
              !.filterZ = OneEuroFilter_reset(v.filterZ),
              !.lastOutput = None]

---------------------------------------------------------------------------
(* HeadPoseEstimator.js *)

\* const IRIS_DIAMETER_MM = 11.7
IRIS_DIAMETER_MM == 1170
\* const MIN_IRIS_PX = 5
MIN_IRIS_PX == 500

\* Landmarks: null, an empty array, or a face, of which the code reads the nose
\* tip (index 1) and the x of the iris boundary points 469, 471, 474 and 476.
LM_NULL  == [kind |-> "null"]
LM_EMPTY == [kind |-> "empty"]
Face(nx, ny, a, b, c, d) ==
    [kind |-> "face", nose |-> [x |-> nx, y |-> ny],
     p469x |-> a, p471x |-> b, p474x |-> c, p476x |-> d]

\* new HeadPoseEstimator(config)
HeadPoseEstimator_new(config) ==
    [screenW |-> config.screenWidthMm,
     screenH |-> config.screenHeightMm,
     defaultZ |-> config.defaultViewingDistance,
     videoW |-> config.videoWidth,
     videoH |-> config.videoHeight,
     sensX |-> config.sensitivityX,
     sensY |-> config.sensitivityY,
     sensZ |-> config.sensitivityZ,
     useIrisDepth |-> config.useIrisDepth,
     focalLengthPx |-> config.focalLengthPx,
     filter |-> Vector3OneEuroFilter_new(config.smoothing),
     wasTracking |-> FALSE]

\* HeadPoseEstimator._irisWidthPx(landmarks)
HeadPoseEstimator_irisWidthPx(e, landmarks) ==
    LET leftW  == Mul(Abs(landmarks.p469x - landmarks.p471x), e.videoW)
        rightW == Mul(Abs(landmarks.p474x - landmarks.p476x), e.videoW)
    IN  Div(leftW + rightW, 2 * ONE)

\* A variant of _estimateDepthFromIris that answers half the default distance
\* for an iris too narrow to trust.
HeadPoseEstimator_estimateDepthFromIris_halfDefault(e, landmarks) ==
    LET irisPx == HeadPoseEstimator_irisWidthPx(e, landmarks)
    IN  IF irisPx < MIN_IRIS_PX THEN e.defaultZ \div 2
        ELSE Div(Mul(Val(e.focalLengthPx), IRIS_DIAMETER_MM), irisPx)

\* A variant of _estimateDepthFromIris with the pinhole relation inverted.
HeadPoseEstimator_estimateDepthFromIris_inverted(e, landmarks) ==
    LET irisPx == HeadPoseEstimator_irisWidthPx(e, landmarks)
    IN  IF irisPx < MIN_IRIS_PX THEN e.defaultZ
        ELSE Div(Mul(Val(e.focalLengthPx), irisPx), IRIS_DIAMETER_MM)

\* HeadPoseEstimator._estimateDepthFromIris(landmarks)
HeadPoseEstimator_estimateDepthFromIris(e, landmarks) ==
    LET irisPx == HeadPoseEstimator_irisWidthPx(e, landmarks)
    IN  IF irisPx < MIN_IRIS_PX THEN e.defaultZ
        ELSE Div(Mul(Val(e.focalLengthPx), IRIS_DIAMETER_MM), irisPx)

\* A variant of the position computation that scales the depth about 0.
HeadPoseEstimator_estimate_position_scaleAboutZero(e, landmarks) ==
    LET nose == landmarks.nose
        x0 == Mul(nose.x - ONE \div 2, e.screenW)
        y0 == Mul(ONE \div 2 - nose.y, e.screenH)
        z0 == IF e.useIrisDepth /\ e.focalLengthPx /= None
              THEN HeadPoseEstimator_estimateDepthFromIris(e, landmarks)
              ELSE e.defaultZ
    IN  [x |-> Mul(x0, e.sensX),
         y |-> Mul(y0, e.sensY),
         z |-> Mul(z0, e.sensZ)]

\* HeadPoseEstimator.estimate, from `const nose` to the sensitivity scaling: the
\* position {x, y, z} handed to the smoothing filter.
HeadPoseEstimator_estimate_position(e, landmarks) ==
    LET nose == landmarks.nose
        x0 == Mul(nose.x - ONE \div 2, e.screenW)
        y0 == Mul(ONE \div 2 - nose.y, e.screenH)
        z0 == IF e.useIrisDepth /\ e.focalLengthPx /= None
              THEN HeadPoseEstimator_estimateDepthFromIris(e, landmarks)
              ELSE e.defaultZ
    IN  [x |-> Mul(x0, e.sensX),
         y |-> Mul(y0, e.sensY),
         z |-> e.defaultZ + Mul(z0 - e.defaultZ, e.sensZ)]

\* A variant of estimate that leaves the filter alone when the subject is lost.
HeadPoseEstimator_estimate_noReset(e, landmarks, t) ==
    IF landmarks.kind # "face"
    THEN [e |-> [e EXCEPT !.wasTracking = FALSE], ret |-> None, raw |-> None,
          resets |-> 0]
    ELSE LET pos == HeadPoseEstimator_estimate_position(e, landmarks)
             r   == Vector3OneEuroFilter_filter(e.filter, pos, t)
         IN  [e |-> [e EXCEPT !.wasTracking = TRUE, !.filter = r.v],
              ret |-> Some(r.ret), raw |-> Some(pos), resets |-> 0]

\* A variant of estimate that does not clear the tracking flag on loss.
HeadPoseEstimator_estimate_keepTracking(e, landmarks, t) ==
    IF landmarks.kind # "face"
    THEN IF e.wasTracking
         THEN [e |-> [e EXCEPT !.filter = Vector3OneEuroFilter_reset(e.filter)],
               ret |-> None, raw |-> None, resets |-> 1]
         ELSE [e |-> e, ret |-> None, raw |-> None, resets |-> 0]
    ELSE LET pos == HeadPoseEstimator_estimate_position(e, landmarks)
             r   == Vector3OneEuroFilter_filter(e.filter, pos, t)
         IN  [e |-> [e EXCEPT !.wasTracking = TRUE, !.filter = r.v],
              ret |-> Some(r.ret), raw |-> Some(pos), resets |-> 0]

\* HeadPoseEstimator.estimate(landmarks), performance.now() / 1000 reading t: the
\* estimator after the call, the position returned (None for null), the position
\* handed to the filter, and the number of _filter.reset() calls it made.
HeadPoseEstimator_estimate(e, landmarks, t) ==
    IF landmarks.kind # "face"
    THEN IF e.wasTracking
         THEN [e |-> [e EXCEPT !.filter = Vector3OneEuroFilter_reset(e.filter),
                               !.wasTracking = FALSE],
               ret |-> None, raw |-> None, resets |-> 1]
         ELSE [e |-> e, ret |-> None, raw |-> None, resets |-> 0]
    ELSE LET pos == HeadPoseEstimator_estimate_position(e, landmarks)
             r   == Vector3OneEuroFilter_filter(e.filter, pos, t)
         IN  [e |-> [e EXCEPT !.wasTracking = TRUE, !.filter = r.v],
              ret |-> Some(r.ret), raw |-> Some(pos), resets |-> 0]

\* A variant of calibrate that stores the focal length before it checks the
\* iris width.
HeadPoseEstimator_calibrate_storeFirst(e, landmarks, distanceMm) ==
    LET irisPx == HeadPoseEstimator_irisWidthPx(e, landmarks)
        focal  == Div(Mul(irisPx, distanceMm), IRIS_DIAMETER_MM)
    IN  IF irisPx < MIN_IRIS_PX
        THEN [e |-> [e EXCEPT !.focalLengthPx = Some(focal)], ret |-> None,
              threw |-> TRUE]
        ELSE [e |-> [e EXCEPT !.focalLengthPx = Some(focal), !.useIrisDepth = TRUE],
              ret |-> Some(focal), threw |-> FALSE]

\* A variant of calibrate that leaves the iris-depth flag as configured.
HeadPoseEstimator_calibrate_keepFlag(e, landmarks, distanceMm) ==
    LET irisPx == HeadPoseEstimator_irisWidthPx(e, landmarks)
        focal  == Div(Mul(irisPx, distanceMm), IRIS_DIAMETER_MM)
    IN  IF irisPx < MIN_IRIS_PX
        THEN [e |-> e, ret |-> None, threw |-> TRUE]
        ELSE [e |-> [e EXCEPT !.focalLengthPx = Some(focal)],
              ret |-> Some(focal), threw |-> FALSE]

\* HeadPoseEstimator.calibrate(landmarks, distanceMm): the estimator after the
\* call, the focal length returned, and whether the call threw.
HeadPoseEstimator_calibrate(e, landmarks, distanceMm) ==
    LET irisPx == HeadPoseEstimator_irisWidthPx(e, landmarks)
        focal  == Div(Mul(irisPx, distanceMm), IRIS_DIAMETER_MM)
    IN  IF irisPx < MIN_IRIS_PX
        THEN [e |-> e, ret |-> None, threw |-> TRUE]
        ELSE [e |-> [e EXCEPT !.focalLengthPx = Some(focal), !.useIrisDepth = TRUE],
              ret |-> Some(focal), threw |-> FALSE]

\* A variant of reset that resets the filter and leaves the tracking flag.
HeadPoseEstimator_reset_keepTracking(e) ==
    [e EXCEPT !.filter = Vector3OneEuroFilter_reset(e.filter)]

\* HeadPoseEstimator.reset()
HeadPoseEstimator_reset(e) ==
    [e EXCEPT !.filter = Vector3OneEuroFilter_reset(e.filter), !.wasTracking = FALSE]

---------------------------------------------------------------------------
(* Exact fractions.  near / d is far below the fixed-point resolution, so the  *)
(* frustum extents are kept as exact fractions of millimetres, in lowest terms *)
(* with a positive denominator: equal values are equal records.                *)

RECURSIVE GCD(_, _)
GCD(a, b) == IF b = 0 THEN a ELSE GCD(b, a % b)

\* The fraction n / d, d /= 0.
Rat(n, d) ==
    LET g == GCD(Abs(n), Abs(d))
        s == IF d < 0 THEN -1 ELSE 1
    IN  [n |-> s * (n \div g), d |-> s * (d \div g)]

\* The fixed-point value a as a fraction.
RatOf(a) == Rat(a, ONE)

RatMul(p, q) ==
    LET g1 == GCD(Abs(p.n), q.d)
        g2 == GCD(Abs(q.n), p.d)
    IN  Rat((p.n \div g1) * (q.n \div g2), (p.d \div g2) * (q.d \div g1))

RatAdd(p, q) == Rat(p.n * q.d + q.n * p.d, p.d * q.d)
RatNeg(p) == [n |-> -p.n, d |-> p.d]
RatSub(p, q) == RatAdd(p, RatNeg(q))

---------------------------------------------------------------------------
(* KooimaProjection.js *)

\* A variant of the activation that retries with z = 2.
calculateOffAxisFrustum_activation_retryAt2(eyePos, screen, near, far) ==
    LET halfW == Div(screen.width, 2 * ONE)
        halfH == Div(screen.height, 2 * ONE)
        pa_x == -halfW
        pa_y == -halfH
        pa_z == 0
        pb_x == halfW
        pc_y == halfH
        va_x == pa_x - eyePos.x
        va_y == pa_y - eyePos.y
        va_z == pa_z - eyePos.z
        vb_x == pb_x - eyePos.x
        vc_y == pc_y - eyePos.y
        d    == -va_z
        k    == Rat(near, d)
    IN  IF d <= 0
        THEN [retry |-> TRUE, d |-> d,
              eyePos |-> [x |-> eyePos.x, y |-> eyePos.y, z |-> 2 * ONE]]
        ELSE [retry |-> FALSE, d |-> d,
              frustum |-> [left   |-> RatMul(RatOf(va_x), k),
                           right  |-> RatMul(RatOf(vb_x), k),
                           top    |-> RatMul(RatOf(vc_y), k),
                           bottom |-> RatMul(RatOf(va_y), k),
                           near   |-> near,
                           far    |-> far]]

\* A variant of the activation that retries only for d = 0.
calculateOffAxisFrustum_activation_guardZero(eyePos, screen, near, far) ==
    LET halfW == Div(screen.width, 2 * ONE)
        halfH == Div(screen.height, 2 * ONE)
        pa_x == -halfW
        pa_y == -halfH
        pa_z == 0
        pb_x == halfW
        pc_y == halfH
        va_x == pa_x - eyePos.x
        va_y == pa_y - eyePos.y
        va_z == pa_z - eyePos.z
        vb_x == pb_x - eyePos.x
        vc_y == pc_y - eyePos.y
        d    == -va_z
        k    == Rat(near, d)
    IN  IF d = 0
        THEN [retry |-> TRUE, d |-> d,
              eyePos |-> [x |-> eyePos.x, y |-> eyePos.y, z |-> ONE]]
        ELSE [retry |-> FALSE, d |-> d,
              frustum |-> [left   |-> RatMul(RatOf(va_x), k),
                           right  |-> RatMul(RatOf(vb_x), k),
                           top    |-> RatMul(RatOf(vc_y), k),
                           bottom |-> RatMul(RatOf(va_y), k),
                           near   |-> near,
                           far    |-> far]]

\* A variant of the activation that does not scale the extents by near / d.
calculateOffAxisFrustum_activation_unscaled(eyePos, screen, near, far) ==
    LET halfW == Div(screen.width, 2 * ONE)
        halfH == Div(screen.height, 2 * ONE)
        pa_x == -halfW
        pa_y == -halfH
        pa_z == 0
        pb_x == halfW
        pc_y == halfH
        va_x == pa_x - eyePos.x
        va_y == pa_y - eyePos.y
        va_z == pa_z - eyePos.z
        vb_x == pb_x - eyePos.x
        vc_y == pc_y - eyePos.y
        d    == -va_z
        k    == Rat(1, 1)
    IN  IF d <= 0
        THEN [retry |-> TRUE, d |-> d,
              eyePos |-> [x |-> eyePos.x, y |-> eyePos.y, z |-> ONE]]
        ELSE [retry |-> FALSE, d |-> d,
              frustum |-> [left   |-> RatMul(RatOf(va_x), k),
                           right  |-> RatMul(RatOf(vb_x), k),
                           top    |-> RatMul(RatOf(vc_y), k),
                           bottom |-> RatMul(RatOf(va_y), k),
                           near   |-> near,
                           far    |-> far]]

\* A variant of the activation that adds the eye's x to the corner instead of
\* subtracting it.
calculateOffAxisFrustum_activation_plusEye(eyePos, screen, near, far) ==
    LET halfW == Div(screen.width, 2 * ONE)
        halfH == Div(screen.height, 2 * ONE)
        pa_x == -halfW
        pa_y == -halfH
        pa_z == 0
        pb_x == halfW
        pc_y == halfH
        va_x == pa_x + eyePos.x
        va_y == pa_y - eyePos.y
        va_z == pa_z - eyePos.z
        vb_x == pb_x - eyePos.x
        vc_y == pc_y - eyePos.y
        d    == -va_z
        k    == Rat(near, d)
    IN  IF d <= 0
        THEN [retry |-> TRUE, d |-> d,
              eyePos |-> [x |-> eyePos.x, y |-> eyePos.y, z |-> ONE]]
        ELSE [retry |-> FALSE, d |-> d,
              frustum |-> [left   |-> RatMul(RatOf(va_x), k),
                           right  |-> RatMul(RatOf(vb_x), k),
                           top    |-> RatMul(RatOf(vc_y), k),
                           bottom |-> RatMul(RatOf(va_y), k),
                           near   |-> near,
                           far    |-> far]]

\* calculateOffAxisFrustum(eyePos, screen, near, far), one activation: either the
\* arguments of the recursive call it makes (d <= 0: the same x and y, z = 1) or
\* the frustum it returns; d is the eye-to-screen distance it computed.
calculateOffAxisFrustum_activation(eyePos, screen, near, far) ==
    LET halfW == Div(screen.width, 2 * ONE)
        halfH == Div(screen.height, 2 * ONE)
        pa_x == -halfW
        pa_y == -halfH
        pa_z == 0
        pb_x == halfW
        pc_y == halfH
        va_x == pa_x - eyePos.x
        va_y == pa_y - eyePos.y
        va_z == pa_z - eyePos.z
        vb_x == pb_x - eyePos.x
        vc_y == pc_y - eyePos.y
        d    == -va_z
        k    == Rat(near, d)
    IN  IF d <= 0
        THEN [retry |-> TRUE, d |-> d,
              eyePos |-> [x |-> eyePos.x, y |-> eyePos.y, z |-> ONE]]
        ELSE [retry |-> FALSE, d |-> d,
              frustum |-> [left   |-> RatMul(RatOf(va_x), k),
                           right  |-> RatMul(RatOf(vb_x), k),
                           top    |-> RatMul(RatOf(vc_y), k),
                           bottom |-> RatMul(RatOf(va_y), k),
                           near   |-> near,
                           far    |-> far]]

RECURSIVE calculateOffAxisFrustum(_, _, _, _)
\* calculateOffAxisFrustum(eyePos, screen, near, far): the frustum returned.
calculateOffAxisFrustum(eyePos, screen, near, far) ==
    LET Go(a) == IF a.retry
                 THEN calculateOffAxisFrustum(a.eyePos, screen, near, far)
                 ELSE a.frustum
    IN  Go(calculateOffAxisFrustum_activation(eyePos, screen, near, far))

RECURSIVE calculateOffAxisFrustum_d(_, _, _, _)
\* calculateOffAxisFrustum(eyePos, screen, near, far): the local d of the
\* activation that returns the frustum, the distance its extents are scaled by.
calculateOffAxisFrustum_d(eyePos, screen, near, far) ==
    LET Go(a) == IF a.retry
                 THEN calculateOffAxisFrustum_d(a.eyePos, screen, near, far)
                 ELSE a.d
    IN  Go(calculateOffAxisFrustum_activation(eyePos, screen, near, far))

\* sub(a, b), add(a, b), scale(v, s), dot(a, b), cross(a, b) on vectors of
\* fixed-point components.
sub(a, b) == [x |-> a.x - b.x, y |-> a.y - b.y, z |-> a.z - b.z]

add(a, b) == [x |-> a.x + b.x, y |-> a.y + b.y, z |-> a.z + b.z]

scale(v, s) == [x |-> Mul(v.x, s), y |-> Mul(v.y, s), z |-> Mul(v.z, s)]

dot(a, b) == Mul(a.x, b.x) + Mul(a.y, b.y) + Mul(a.z, b.z)

\* A variant of cross with the operands exchanged.
cross_swapped(a, b) ==
    [x |-> Mul(b.y, a.z) - Mul(b.z, a.y),
     y |-> Mul(b.z, a.x) - Mul(b.x, a.z),
     z |-> Mul(b.x, a.y) - Mul(b.y, a.x)]

cross(a, b) ==
    [x |-> Mul(a.y, b.z) - Mul(a.z, b.y),
     y |-> Mul(a.z, b.x) - Mul(a.x, b.z),
     z |-> Mul(a.x, b.y) - Mul(a.y, b.x)]

\* normalize(v): the zero vector when v has length 0.
normalize(v) ==
    LET Unit(len) == IF len = 0
                     THEN [x |-> 0, y |-> 0, z |-> 0]
                     ELSE [x |-> Div(v.x, len), y |-> Div(v.y, len),
                           z |-> Div(v.z, len)]
    IN  Unit(Sqrt(dot(v, v)))

\* A variant of the activation that measures the right extent at the upper-left
\* corner.
calculateGeneralizedProjection_activation_rightFromUL(eyePos, screenLL, screenLR, screenUL, near, far) ==
    LET Result(vr, vu, vn, va, vb, vc, d) ==
            IF d <= 0
            THEN [retry |-> TRUE, d |-> d,
                  eyePos |-> add(eyePos, scale(vn, ONE - d))]
            ELSE [retry |-> FALSE, d |-> d,
                  frustum |-> [left   |-> RatMul(RatOf(dot(vr, va)), Rat(near, d)),
                               right  |-> RatMul(RatOf(dot(vr, vc)), Rat(near, d)),
                               top    |-> RatMul(RatOf(dot(vu, vc)), Rat(near, d)),
                               bottom |-> RatMul(RatOf(dot(vu, va)), Rat(near, d)),
                               near   |-> near,
                               far    |-> far],
                  viewMatrix |-> << vr.x, vu.x, vn.x, 0,
                                    vr.y, vu.y, vn.y, 0,
                                    vr.z, vu.z, vn.z, 0,
                                    -dot(vr, eyePos), -dot(vu, eyePos),
                                    -dot(vn, eyePos), ONE >>]
        Corners(vr, vu, vn, va) ==
            Result(vr, vu, vn, va, sub(screenLR, eyePos), sub(screenUL, eyePos),
                   -dot(va, vn))
        Basis(vr, vu) ==
            Corners(vr, vu, normalize(cross(vr, vu)), sub(screenLL, eyePos))
    IN  Basis(normalize(sub(screenLR, screenLL)),
              normalize(sub(screenUL, screenLL)))

\* calculateGeneralizedProjection(eyePos, screenLL, screenLR, screenUL, near, far),
\* one activation: either the arguments of the recursive call it makes (d <= 0:
\* the eye moved by 1 - d along the screen normal) or the frustum and view matrix
\* it returns.
calculateGeneralizedProjection_activation(eyePos, screenLL, screenLR, screenUL, near, far) ==
    LET Result(vr, vu, vn, va, vb, vc, d) ==
            IF d <= 0
            THEN [retry |-> TRUE, d |-> d,
                  eyePos |-> add(eyePos, scale(vn, ONE - d))]
            ELSE [retry |-> FALSE, d |-> d,
                  frustum |-> [left   |-> RatMul(RatOf(dot(vr, va)), Rat(near, d)),
                               right  |-> RatMul(RatOf(dot(vr, vb)), Rat(near, d)),
                               top    |-> RatMul(RatOf(dot(vu, vc)), Rat(near, d)),
                               bottom |-> RatMul(RatOf(dot(vu, va)), Rat(near, d)),
                               near   |-> near,
                               far    |-> far],
                  viewMatrix |-> << vr.x, vu.x, vn.x, 0,
                                    vr.y, vu.y, vn.y, 0,
                                    vr.z, vu.z, vn.z, 0,
                                    -dot(vr, eyePos), -dot(vu, eyePos),
                                    -dot(vn, eyePos), ONE >>]
        Corners(vr, vu, vn, va) ==
            Result(vr, vu, vn, va, sub(screenLR, eyePos), sub(screenUL, eyePos),
                   -dot(va, vn))
        Basis(vr, vu) ==
            Corners(vr, vu, normalize(cross(vr, vu)), sub(screenLL, eyePos))
    IN  Basis(normalize(sub(screenLR, screenLL)),
              normalize(sub(screenUL, screenLL)))

\* The fraction p is less than the fraction q.
RatLess(p, q) ==
    LET Less(g) == p.n * (q.d \div g) < q.n * (p.d \div g)
    IN  Less(GCD(p.d, q.d))

---------------------------------------------------------------------------
(* three.js, as far as OffAxisCamera.js and SceneManager.js use it *)

\* Matrix4.makePerspective(left, right, top, bottom, near, far).  The matrix is
\* determined by, and for left < right, bottom < top, near < far determines, its
\* six arguments: it is kept as the record of them.
Matrix4_makePerspective(left, right, top, bottom, near, far) ==
    [left |-> left, right |-> right, top |-> top, bottom |-> bottom,
     near |-> near, far |-> far]

\* Matrix4.copy(m).invert(): the inverse, kept as the matrix it inverts.
Matrix4_invert(m) == [inverseOf |-> m]

\* Math.tan(DEG2RAD * 0.5 * 60)
TAN_30_DEG == Rat(57735, 100000)

\* PerspectiveCamera.updateProjectionMatrix(): the symmetric projection of the
\* camera's fov (60 degrees), aspect, near and far; it also refreshes the inverse.
PerspectiveCamera_updateProjectionMatrix(c) ==
    LET top    == RatMul(RatOf(c.near), TAN_30_DEG)
        height == RatAdd(top, top)
        width  == RatMul(c.aspect, height)
        left   == RatNeg(RatMul(Rat(1, 2), width))
        m      == Matrix4_makePerspective(left, RatAdd(left, width), top,
                                          RatSub(top, height), c.near, c.far)
    IN  [c EXCEPT !.projectionMatrix = m, !.projectionMatrixInverse = Matrix4_invert(m)]

\* Object3D.lookAt(x, y, z) for a parentless camera at `position`: the camera's
\* viewing direction, as the shortest integer vector along target - position.
\* Matrix4.lookAt takes position - target as the camera's +Z axis, and (0, 0, 1)
\* when that is zero; a camera looks along its -Z axis.
Object3D_lookAt(position, target) ==
    LET dx == target.x - position.x
        dy == target.y - position.y
        dz == target.z - position.z
        g  == GCD(GCD(Abs(dx), Abs(dy)), Abs(dz))
    IN  IF g = 0 THEN [x |-> 0, y |-> 0, z |-> -1]
        ELSE [x |-> dx \div g, y |-> dy \div g, z |-> dz \div g]

\* Object3D.updateMatrixWorld(force): the world matrix composed from the
\* camera's position and orientation (the camera has no parent).
Object3D_updateMatrixWorld(c) ==
    [c EXCEPT !.matrixWorld = [position |-> c.position, forward |-> c.forward]]

\* new THREE.PerspectiveCamera(60, aspect, near, far)
PerspectiveCamera_new(aspect, near, far) ==
    PerspectiveCamera_updateProjectionMatrix(
        [aspect |-> aspect, near |-> near, far |-> far,
         projectionMatrix |-> None, projectionMatrixInverse |-> None,
         position |-> [x |-> 0, y |-> 0, z |-> 0],
         forward |-> [x |-> 0, y |-> 0, z |-> -1],
         matrixWorld |-> [position |-> [x |-> 0, y |-> 0, z |-> 0],
                          forward |-> [x |-> 0, y |-> 0, z |-> -1]]])

\* WebGLRenderer.render(scene, camera): refreshes the parentless camera's world
\* matrix and draws with the camera's projection and world matrices.  The
\* camera after the call and the frame drawn.
WebGLRenderer_render(c, size) ==
    LET c2 == Object3D_updateMatrixWorld(c)
    IN  [camera |-> c2,
         frame |-> [projectionMatrix |-> c2.projectionMatrix,
                    matrixWorld |-> c2.matrixWorld, size |-> size]]

---------------------------------------------------------------------------
(* OffAxisCamera.js *)

\* A variant of updateFromHeadPosition that does not refresh the cached inverse.
OffAxisCamera_updateFromHeadPosition_staleInverse(o, headPos) ==
    LET frustum == calculateOffAxisFrustum(headPos,
                       [width |-> o.screenWidth, height |-> o.screenHeight],
                       o.near, o.far)
        m  == Matrix4_makePerspective(frustum.left, frustum.right, frustum.top,
                                      frustum.bottom, frustum.near, frustum.far)
        c1 == [o.camera EXCEPT !.projectionMatrix = m]
        c2 == [c1 EXCEPT !.position = [x |-> headPos.x, y |-> headPos.y, z |-> headPos.z]]
        c3 == [c2 EXCEPT !.forward =
                   Object3D_lookAt(c2.position, [x |-> headPos.x, y |-> headPos.y, z |-> 0])]
    IN  [o EXCEPT !.camera = Object3D_updateMatrixWorld(c3)]

\* OffAxisCamera.updateFromHeadPosition(headPos) on the OffAxisCamera o.
OffAxisCamera_updateFromHeadPosition(o, headPos) ==
    LET frustum == calculateOffAxisFrustum(headPos,
                       [width |-> o.screenWidth, height |-> o.screenHeight],
                       o.near, o.far)
        m  == Matrix4_makePerspective(frustum.left, frustum.right, frustum.top,
                                      frustum.bottom, frustum.near, frustum.far)
        c1 == [o.camera EXCEPT !.projectionMatrix = m,
                               !.projectionMatrixInverse = Matrix4_invert(m)]
        c2 == [c1 EXCEPT !.position = [x |-> headPos.x, y |-> headPos.y, z |-> headPos.z]]
        c3 == [c2 EXCEPT !.forward =
                   Object3D_lookAt(c2.position, [x |-> headPos.x, y |-> headPos.y, z |-> 0])]
    IN  [o EXCEPT !.camera = Object3D_updateMatrixWorld(c3)]

\* A variant of the constructor without the initial update.
OffAxisCamera_new_noUpdate(config) ==
    [screenWidth  |-> config.screenWidthMm,
     screenHeight |-> config.screenHeightMm,
     near |-> config.nearClip,
     far  |-> config.farClip,
     camera |-> PerspectiveCamera_new(
                    Rat(config.screenWidthMm, config.screenHeightMm),
                    config.nearClip, config.farClip)]

\* new OffAxisCamera(config)
OffAxisCamera_new(config) ==
    LET o == [screenWidth  |-> config.screenWidthMm,
              screenHeight |-> config.screenHeightMm,
              near |-> config.nearClip,
              far  |-> config.farClip,
              camera |-> PerspectiveCamera_new(
                             Rat(config.screenWidthMm, config.screenHeightMm),
                             config.nearClip, config.farClip)]
        defaultPos == [x |-> 0, y |-> 0, z |-> config.defaultViewingDistance]
    IN  OffAxisCamera_updateFromHeadPosition(o, defaultPos)

---------------------------------------------------------------------------
(* SceneManager.js.  this.camera is offAxisCamera.getCamera(), the very object *)
(* OffAxisCamera updates: the scene manager reads and writes cam.camera.       *)

\* new SceneManager(offAxisCamera): the renderer is sized to the window and the
\* resize listener is registered; nothing has been rendered yet.
SceneManager_new(windowSize) ==
    [size |-> windowSize, listening |-> TRUE, rendered |-> None]

\* A variant of _onResize in the usual three.js manner: it also sets the camera's
\* aspect to the window's and calls updateProjectionMatrix().
SceneManager_onResize_aspect(sm, c, windowSize) ==
    [sm |-> [sm EXCEPT !.size = windowSize],
     camera |-> PerspectiveCamera_updateProjectionMatrix(
                    [c EXCEPT !.aspect = Rat(windowSize.w, windowSize.h)])]

\* SceneManager._onResize(): renderer.setSize(window.innerWidth, innerHeight),
\* and nothing done to the camera.  The scene manager and the camera after it.
SceneManager_onResize(sm, c, windowSize) ==
    [sm |-> [sm EXCEPT !.size = windowSize], camera |-> c]

\* SceneManager.render(): renderer.render(this.scene, this.camera).
SceneManager_render(sm, c) ==
    LET r == WebGLRenderer_render(c, sm.size)
    IN  [sm |-> [sm EXCEPT !.rendered = Some(r.frame)], camera |-> r.camera]

\* SceneManager.dispose(): the resize listener is removed.
SceneManager_dispose(sm) == [sm EXCEPT !.listening = FALSE]

---------------------------------------------------------------------------
(* FaceTracker.js, as far as the render loop reads it *)

\* A detection result of FaceLandmarker.detectForVideo: the faces found, each
\* its landmarks.
DetectionResult(faces) == [faceLandmarks |-> faces]

\* The FaceTracker once init() has completed: running, no result yet.
FaceTracker_started == [running |-> TRUE, latestResult |-> None]

\* FaceTracker._detect() on a new video frame for which detectForVideo returns
\* `result`: the result is stored.
FaceTracker_detect(tr, result) ==
    IF ~tr.running THEN tr ELSE [tr EXCEPT !.latestResult = Some(result)]

\* FaceTracker.getLatestLandmarks(): null unless the latest result holds a face.
FaceTracker_getLatestLandmarks(tr) ==
    IF tr.latestResult = None THEN LM_NULL
    ELSE IF Len(Val(tr.latestResult).faceLandmarks) = 0 THEN LM_NULL
    ELSE Val(tr.latestResult).faceLandmarks[1]

---------------------------------------------------------------------------
(* FaceTracker.js: the tracker with the init() call made on it, and what the   *)
(* browser holds for it: the animation frames requested and not yet run or    *)
(* cancelled, and the clock of the video element.                              *)

\* new FaceTracker(options), init() not called yet.  onLandmarks and onError
\* say whether the callbacks are set; video is the <video> element once looked
\* up, srcObject its stream while attached; init is the await init() is at.
FaceTracker_new(options) ==
    [onLandmarks |-> options.onLandmarks, onError |-> options.onError,
     video |-> None, faceLandmarker |-> None, latestResult |-> None,
     running |-> FALSE, animFrameId |-> None, lastVideoTime |-> -1,
     init |-> "notCalled", frames |-> {}, nextId |-> 1, currentTime |-> 0]

\* What detectForVideo does in one call: it returns a result or it throws.
Detected(result) == [kind |-> "result", result |-> result]
DetectThrows == [kind |-> "throw"]

\* A variant of _detect that forgets the latest result when detection throws.
FaceTracker_detectFrame_clearOnThrow(t, outcome) ==
    LET Scheduled(t1) ==
            IF t1.currentTime = t1.lastVideoTime
            THEN [t |-> t1, detected |-> FALSE, threw |-> FALSE,
                  onLandmarks |-> 0, onError |-> 0]
            ELSE IF outcome.kind = "throw" \/ t1.faceLandmarker = None
            THEN [t |-> [t1 EXCEPT !.lastVideoTime = t1.currentTime,
                                   !.latestResult = None],
                  detected |-> TRUE, threw |-> TRUE,
                  onLandmarks |-> 0, onError |-> IF t1.onError THEN 1 ELSE 0]
            ELSE [t |-> [t1 EXCEPT !.lastVideoTime = t1.currentTime,
                                   !.latestResult = Some(outcome.result)],
                  detected |-> TRUE, threw |-> FALSE,
                  onLandmarks |-> IF t1.onLandmarks
                                     /\ Len(outcome.result.faceLandmarks) > 0
                                  THEN 1 ELSE 0,
                  onError |-> 0]
    IN  IF ~t.running
        THEN [t |-> t, detected |-> FALSE, threw |-> FALSE,
              onLandmarks |-> 0, onError |-> 0]
        ELSE Scheduled([t EXCEPT !.animFrameId = Some(t.nextId),
                                 !.frames = @ \cup {t.nextId},
                                 !.nextId = @ + 1])

\* FaceTracker._detect(), detectForVideo doing `outcome` if it is called: the
\* tracker after the call, whether detectForVideo was called and whether it
\* threw (a missing landmarker throws too, inside the same try), and the number
\* of calls made to onLandmarks and to onError.
FaceTracker_detectFrame(t, outcome) ==
    LET Scheduled(t1) ==
            IF t1.currentTime = t1.lastVideoTime
            THEN [t |-> t1, detected |-> FALSE, threw |-> FALSE,
                  onLandmarks |-> 0, onError |-> 0]
            ELSE IF outcome.kind = "throw" \/ t1.faceLandmarker = None
            THEN [t |-> [t1 EXCEPT !.lastVideoTime = t1.currentTime],
                  detected |-> TRUE, threw |-> TRUE,
                  onLandmarks |-> 0, onError |-> IF t1.onError THEN 1 ELSE 0]
            ELSE [t |-> [t1 EXCEPT !.lastVideoTime = t1.currentTime,
                                   !.latestResult = Some(outcome.result)],
                  detected |-> TRUE, threw |-> FALSE,
                  onLandmarks |-> IF t1.onLandmarks
                                     /\ Len(outcome.result.faceLandmarks) > 0
                                  THEN 1 ELSE 0,
                  onError |-> 0]
    IN  IF ~t.running
        THEN [t |-> t, detected |-> FALSE, threw |-> FALSE,
              onLandmarks |-> 0, onError |-> 0]
        ELSE Scheduled([t EXCEPT !.animFrameId = Some(t.nextId),
                                 !.frames = @ \cup {t.nextId},
                                 !.nextId = @ + 1])

\* init(), up to its first await: _initWebcam finds getUserMedia and awaits it.
FaceTracker_init_call(t) == [t EXCEPT !.init = "getUserMedia"]

\* init() resumed with the stream: the video element gets it, and _initWebcam
\* awaits the element's first frame.
FaceTracker_init_stream(t) ==
    [t EXCEPT !.video = Some([srcObject |-> TRUE]), !.init = "loadeddata"]

\* init() resumed with the first frame loaded: _initFaceLandmarker awaits the
\* import, the fileset and the landmarker.
FaceTracker_init_loaded(t) == [t EXCEPT !.init = "model"]

\* init() resumed with the landmarker created: it is stored, _running is set
\* and _detect() is called.
FaceTracker_init_model(t, outcome) ==
    LET Done(r) == [r EXCEPT !.t = [r.t EXCEPT !.init = "done"]]
    IN  Done(FaceTracker_detectFrame(
                 [t EXCEPT !.faceLandmarker = Some("open"), !.running = TRUE],
                 outcome))

\* init() rejected at the await it is at.
FaceTracker_init_reject(t) == [t EXCEPT !.init = "rejected"]

\* FaceTracker.destroy()
FaceTracker_destroy(t) ==
    [t EXCEPT !.running = FALSE,
              !.frames = IF t.animFrameId /= None THEN @ \ {Val(t.animFrameId)} ELSE @,
              !.animFrameId = None,
              !.video = IF t.video /= None THEN Some([srcObject |-> FALSE]) ELSE @,
              !.faceLandmarker = None,
              !.latestResult = None]

---------------------------------------------------------------------------
(* main.js: the render loop *)

\* A variant of animate that renders before it updates the camera.
animate_renderFirst(tr, e, o, sm, t) ==
    LET Render(landmarks, r) ==
            LET Update(o2, sr) ==
                    [est |-> r.e, cam |-> o2, scene |-> sr.sm,
                     landmarks |-> landmarks, headPos |-> r.ret, estimates |-> 1]
            IN  Update(IF r.ret /= None
                       THEN OffAxisCamera_updateFromHeadPosition(
                                [o EXCEPT !.camera = SceneManager_render(sm, o.camera).camera],
                                Val(r.ret))
                       ELSE [o EXCEPT !.camera = SceneManager_render(sm, o.camera).camera],
                       SceneManager_render(sm, o.camera))
        Estimate(landmarks) == Render(landmarks, HeadPoseEstimator_estimate(e, landmarks, t))
    IN  Estimate(FaceTracker_getLatestLandmarks(tr))

\* animate(), one pass of the render loop, the clock reading t: the tracker's
\* latest landmarks are read, estimate is called on them, the camera is updated
\* if a position came back, and the scene is rendered.  The estimator, the
\* OffAxisCamera and the scene manager after the pass, with the landmarks read,
\* the position estimated and the number of estimate calls made.
animate(tr, e, o, sm, t) ==
    LET Render(landmarks, r, o2) ==
            LET Done(sr) ==
                    [est |-> r.e, cam |-> [o2 EXCEPT !.camera = sr.camera],
                     scene |-> sr.sm, landmarks |-> landmarks, headPos |-> r.ret,
                     estimates |-> 1]
            IN  Done(SceneManager_render(sm, o2.camera))
        Update(landmarks, r) ==
            Render(landmarks, r,
                   IF r.ret /= None
                   THEN OffAxisCamera_updateFromHeadPosition(o, Val(r.ret))
                   ELSE o)
        Estimate(landmarks) == Update(landmarks, HeadPoseEstimator_estimate(e, landmarks, t))
    IN  Estimate(FaceTracker_getLatestLandmarks(tr))

---------------------------------------------------------------------------
(* Bounds and input sets *)

\* Timestamps are multiples of Tick (in hundredths of a second), up to MaxT ticks.
Tick == 5
MaxT == 3
TimeStamps == {k * Tick : k \in 0..MaxT}

\* The clock estimate() reads runs from 0 to MaxClock ticks.
MaxClock == 2
\* The number of recursive calls of the projection solver followed.
MaxDepth == 3
\* The number of animation frames a FaceTracker requests, and the number of
\* new frames its video shows.
MaxFrames == 4
MaxVideoTime == 2
ClockReadings == {k * Tick : k \in 0..MaxClock}

\* Filter parameter settings: the defaults of Smoothing.js and a second setting.
ParamSets ==
    {[minCutoff |-> ONE, beta |-> ONE \div 2, dCutoff |-> ONE],
     [minCutoff |-> 2 * ONE, beta |-> ONE \div 10, dCutoff |-> 3 * ONE]}

\* Raw scalar samples (mm).
Samples == {-3 * ONE, 0, 75, ONE + 3, 4 * ONE}

\* Vector filter settings: the defaults (dead zone 2 mm) and one with no dead zone.
V3ParamSets ==
    {[minCutoff |-> ONE, beta |-> ONE \div 2, dCutoff |-> ONE,
      deadZone |-> DEFAULT_DEAD_ZONE],
     [minCutoff |-> 2 * ONE, beta |-> ONE \div 10, dCutoff |-> 3 * ONE, deadZone |-> 0]}

Point(x, y, z) == [x |-> x, y |-> y, z |-> z]

\* Raw 3D positions (mm): around a viewer 600 mm in front of the screen.
Points ==
    {Point(0, 0, 600 * ONE),
     Point(3 * ONE, 0, 600 * ONE),
     Point(-2 * ONE, 10 * ONE, 594 * ONE)}

\* Landmark inputs: no subject (null, empty array) and three faces.  FaceA looks
\* at the screen centre (irises 12.8 px wide); FaceB is FaceA with the nose 0.01
\* lower and irises too narrow to trust (3.2 px); FaceC is off centre and nearer
\* (irises 16 px).
FaceA == Face(50, 50, 40, 42, 58, 60)
FaceB == Face(50, 51, 41, 42, 58, 58)
FaceC == Face(53, 48, 40, 42, 58, 61)
Faces == {FaceA, FaceB, FaceC}
Landmarks == {LM_NULL, LM_EMPTY} \cup Faces

\* Known viewing distances offered to calibrate (mm).
CalibrationDistances == {600 * ONE}

\* Estimator configurations: that of config.js / main.js (iris depth off, no
\* focal length; calibrate turns iris depth on), and one with iris depth on
\* (focal length videoWidth * 0.8) and sensitivities 2, 0.5 and 0, and one
\* with the default viewing distance 500 mm and depth sensitivity 1.5.
BaseConfig ==
    [screenWidthMm |-> 344 * ONE, screenHeightMm |-> 215 * ONE,
     defaultViewingDistance |-> 600 * ONE,
     videoWidth |-> 640 * ONE, videoHeight |-> 480 * ONE,
     sensitivityX |-> ONE, sensitivityY |-> ONE, sensitivityZ |-> ONE,
     useIrisDepth |-> FALSE, focalLengthPx |-> None,
     smoothing |-> [minCutoff |-> ONE, beta |-> ONE \div 2, dCutoff |-> ONE,
                    deadZone |-> DEFAULT_DEAD_ZONE]]
EstConfigs ==
    {BaseConfig,
     [BaseConfig EXCEPT !.useIrisDepth = TRUE, !.focalLengthPx = Some(512 * ONE),
                        !.sensitivityX = 2 * ONE, !.sensitivityY = ONE \div 2,
                        !.sensitivityZ = 0],
     [BaseConfig EXCEPT !.defaultViewingDistance = 500 * ONE,
                        !.sensitivityZ = (3 * ONE) \div 2]}

\* Camera configurations: that of config.js (screen 344 x 215 mm, near 1, far
\* 10000, viewing distance 600) and a second one.
CamConfigs ==
    {[screenWidthMm |-> 344 * ONE, screenHeightMm |-> 215 * ONE,
      defaultViewingDistance |-> 600 * ONE, nearClip |-> ONE, farClip |-> 10000 * ONE],
     [screenWidthMm |-> 600 * ONE, screenHeightMm |-> 340 * ONE,
      defaultViewingDistance |-> 500 * ONE, nearClip |-> 10 * ONE, farClip |-> 5000 * ONE]}

\* Eye positions given to updateFromHeadPosition (mm): centred, off centre, on
\* the screen plane and behind it.
Eyes ==
    {Point(0, 0, 600 * ONE),
     Point(50 * ONE, -30 * ONE, 450 * ONE),
     Point(-86 * ONE, 20 * ONE, 0),
     Point(10 * ONE, 10 * ONE, -50 * ONE)}

\* What detectForVideo can return: no face, or one of the faces.
DetectionResults == {DetectionResult(<<>>)} \cup {DetectionResult(<<f>>) : f \in Faces}

\* The configuration main.js builds the OffAxisCamera from (config.js).
AppCamConfig ==
    [screenWidthMm |-> 344 * ONE, screenHeightMm |-> 215 * ONE,
     defaultViewingDistance |-> 600 * ONE, nearClip |-> ONE, farClip |-> 10000 * ONE]

\* The callbacks a FaceTracker is constructed with: set or not.
TrackerOptions == [onLandmarks : BOOLEAN, onError : BOOLEAN]

\* What detectForVideo can do: return one of the results, or throw.
DetectOutcomes == {DetectThrows} \cup {Detected(r) : r \in DetectionResults}

\* Window sizes (px).
WindowSizes == {[w |-> 1280, h |-> 720], [w |-> 800, h |-> 600]}

\* Screens given to the projection solver (mm).
Screens ==
    {[width |-> 344 * ONE, height |-> 215 * ONE],
     [width |-> 400 * ONE, height |-> 300 * ONE]}

\* Clip planes given to the projection solver.
Clips == {[near |-> ONE, far |-> 10000 * ONE], [near |-> 10 * ONE, far |-> 5000 * ONE]}

\* The corners pa, pb, pc of the origin-centred screen in the plane z = 0.
AxisCorners(screen) ==
    [LL |-> Point(-Div(screen.width, 2 * ONE), -Div(screen.height, 2 * ONE), 0),
     LR |-> Point(Div(screen.width, 2 * ONE), -Div(screen.height, 2 * ONE), 0),
     UL |-> Point(-Div(screen.width, 2 * ONE), Div(screen.height, 2 * ONE), 0)]

\* A 400 by 300 mm screen turned about the vertical axis (normal (0.6, 0, 0.8)).
TiltedCorners ==
    [LL |-> Point(-160 * ONE, -150 * ONE, 120 * ONE),
     LR |-> Point(160 * ONE, -150 * ONE, -120 * ONE),
     UL |-> Point(-160 * ONE, 150 * ONE, 120 * ONE)]

\* The 344 by 215 mm screen seen from behind: its normal is (0, 0, -1).
MirroredCorners ==
    [LL |-> Point(172 * ONE, -10750, 0),
     LR |-> Point(-172 * ONE, -10750, 0),
     UL |-> Point(172 * ONE, 10750, 0)]

\* Corners that span no plane: two of them coincide, or the three are in line.
CoincidentCorners ==
    [LL |-> Point(-172 * ONE, -10750, 0),
     LR |-> Point(-172 * ONE, -10750, 0),
     UL |-> Point(-172 * ONE, 10750, 0)]

CollinearCorners ==
    [LL |-> Point(-172 * ONE, 0, 0),
     LR |-> Point(172 * ONE, 0, 0),
     UL |-> Point(0, 0, 0)]

CornerSets ==
    {AxisCorners(screen) : screen \in Screens}
        \cup {TiltedCorners, MirroredCorners, CoincidentCorners, CollinearCorners}

\* Eye positions given to the projection solver (mm): centred, off centre, one
\* millimetre in front of the screen plane, on it and behind it.
SolverEyes ==
    {Point(0, 0, 600 * ONE),
     Point(0, 0, 450 * ONE),
     Point(50 * ONE, -30 * ONE, 450 * ONE),
     Point(5 * ONE, 3 * ONE, ONE),
     Point(5 * ONE, 3 * ONE, 0),
     Point(-86 * ONE, 20 * ONE, 0),
     Point(10 * ONE, 10 * ONE, -50 * ONE),
     Point(0, 0, -600 * ONE)}

---------------------------------------------------------------------------
(* The specification of one OneEuroFilter under arbitrary calls *)

\* The samples fed since construction or the last reset(), after filter(x, t) on
\* the filter f: "const" with the value v while every call was given v at a
\* timestamp later than the one before, "broken" once one was not.
Run(run, f, x, t) ==
    IF run.state = "fresh" THEN [state |-> "const", v |-> x]
    ELSE IF run.state = "const" /\ run.v = x /\ t > Val(f.tPrev) THEN run
    ELSE [state |-> "broken"]

IdleOEF == oef = None /\ oefCall = None
IdleV3  == v3 = None /\ v3Twin = None /\ v3Call = None
IdleEst == est = None /\ now = 0 /\ estCall = None
IdleCam == cam = None /\ scene = None /\ camCall = None
IdleSolver == solver = None
IdleApp == tracker = None /\ tick = None
IdleFT == ft = None /\ ftCall = None

InitOEF ==
    /\ \E p \in ParamSets : oef = OneEuroFilter_new(p)
    /\ oefCall = [op |-> "new", prevOp |-> "none", x |-> 0, t |-> 0, ret |-> None,
                  pre |-> oef, resetUsed |-> FALSE, run |-> [state |-> "fresh"]]
    /\ IdleV3 /\ IdleEst /\ IdleCam /\ IdleSolver /\ IdleApp /\ IdleFT

\* filter(x, t) with any sample and any timestamp, increasing or not.
OEF_Filter ==
    \E x \in Samples, t \in TimeStamps :
        \E r \in {OneEuroFilter_filter(oef, x, t)} :
            /\ oef' = r.f
            /\ oefCall' = [op |-> "filter", prevOp |-> oefCall.op, x |-> x, t |-> t,
                           ret |-> Some(r.ret), pre |-> oef,
                           resetUsed |-> oefCall.resetUsed,
                           run |-> Run(oefCall.run, oef, x, t)]
            /\ UNCHANGED <<v3Vars, estVars, camVars, solverVars, appVars, ftVars>>

OEF_Reset ==
    /\ oef' = OneEuroFilter_reset(oef)
    /\ oefCall' = [op |-> "reset", prevOp |-> oefCall.op, x |-> 0, t |-> 0, ret |-> None,
                   pre |-> oef, resetUsed |-> (oef.tPrev /= None),
                   run |-> [state |-> "fresh"]]
    /\ UNCHANGED <<v3Vars, estVars, camVars, solverVars, appVars, ftVars>>

NextOEF == OEF_Filter \/ OEF_Reset

SpecOEF == InitOEF /\ [][NextOEF]_vars

---------------------------------------------------------------------------
(* Claims about OneEuroFilter, checked under SpecOEF *)

\* oefCall fields: op, the call just made ("new", "filter", "reset"); prevOp, the
\* call before it; x, t, its arguments; ret, its result; pre, the filter before it;
\* resetUsed, whether the last reset() was made on a filter that had been fed;
\* run, the samples fed since construction or the last reset() (see Run).

\* C5  Filter first-call identity: the first filter(x0, t) on a freshly constructed
\* filter, or the first after reset(), returns exactly x0 and records x0 as the
\* previous value, 0 as the previous derivative and t as the previous timestamp.
C5_FirstCallIdentity ==
    (oefCall.op = "filter" /\ oefCall.prevOp \in {"new", "reset"}) =>
        /\ oefCall.ret = Some(oefCall.x)
        /\ oef.xPrev = Some(oefCall.x)
        /\ oef.dxPrev = Some(0)
        /\ oef.tPrev = Some(oefCall.t)

\* A first call after a reset() of a filter that had been fed, with a non-zero
\* sample and a non-zero timestamp.
C5_Witness ==
    /\ oefCall.op = "filter" /\ oefCall.prevOp = "reset" /\ oefCall.resetUsed
    /\ oefCall.x = 4 * ONE /\ oefCall.t = Tick
    /\ oefCall.ret = Some(4 * ONE)

\* C6  Non-increasing timestamps are tolerated: filter(x, t) on an initialised
\* filter with t <= the stored timestamp returns the last filtered value, ignores
\* x, and leaves the stored value, derivative and timestamp unchanged.
C6_NonIncreasingTimestamp ==
    (/\ oefCall.op = "filter"
     /\ oefCall.pre.tPrev /= None
     /\ oefCall.t <= Val(oefCall.pre.tPrev)) =>
        /\ oefCall.ret = oefCall.pre.xPrev
        /\ oef = oefCall.pre

\* A call with an earlier timestamp and a sample other than the stored value, on
\* a filter that has smoothed at least one sample.
C6_Witness ==
    /\ oefCall.op = "filter"
    /\ oefCall.pre.tPrev /= None
    /\ oefCall.t < Val(oefCall.pre.tPrev)
    /\ oefCall.pre.dxPrev /= Some(0)
    /\ Some(oefCall.x) /= oefCall.pre.xPrev
    /\ oefCall.ret = oefCall.pre.xPrev

---------------------------------------------------------------------------
(* The specification of one Vector3OneEuroFilter under arbitrary calls *)

\* The settings a Vector3OneEuroFilter was constructed with.
V3Params(v) ==
    [minCutoff |-> v.filterX.minCutoff, beta |-> v.filterX.beta,
     dCutoff |-> v.filterX.dCutoff, deadZone |-> v.deadZone]

InitV3 ==
    /\ \E p \in V3ParamSets : v3 = Vector3OneEuroFilter_new(p)
    /\ v3Twin = None
    /\ v3Call = [op |-> "new", prevOp |-> "none", pos |-> Point(0, 0, 0), t |-> 0,
                 ret |-> None, filtered |-> None, twinRet |-> None, pre |-> v3,
                 resetUsed |-> FALSE]
    /\ IdleOEF /\ IdleEst /\ IdleCam /\ IdleSolver /\ IdleApp /\ IdleFT

\* filter(pos, t) with any point and any timestamp; the twin, once constructed,
\* receives the same call.
V3_Filter ==
    \E pos \in Points, t \in TimeStamps :
        \E r  \in {Vector3OneEuroFilter_filter(v3, pos, t)},
           tw \in {IF v3Twin = None THEN None
                   ELSE Some(Vector3OneEuroFilter_filter(Val(v3Twin), pos, t))} :
            /\ v3' = r.v
            /\ v3Twin' = IF tw = None THEN None ELSE Some(Val(tw).v)
            /\ v3Call' = [op |-> "filter", prevOp |-> v3Call.op, pos |-> pos, t |-> t,
                          ret |-> Some(r.ret), filtered |-> Some(r.filtered),
                          twinRet |-> IF tw = None THEN None ELSE Some(Val(tw).ret),
                          pre |-> v3, resetUsed |-> v3Call.resetUsed]
            /\ UNCHANGED <<oefVars, estVars, camVars, solverVars, appVars, ftVars>>

\* reset(); a new filter with the same settings is constructed beside it.
V3_Reset ==
    /\ v3' = Vector3OneEuroFilter_reset(v3)
    /\ v3Twin' = Some(Vector3OneEuroFilter_new(V3Params(v3)))
    /\ v3Call' = [op |-> "reset", prevOp |-> v3Call.op, pos |-> Point(0, 0, 0), t |-> 0,
                  ret |-> None, filtered |-> None, twinRet |-> None, pre |-> v3,
                  resetUsed |-> (v3.lastOutput /= None)]
    /\ UNCHANGED <<oefVars, estVars, camVars, solverVars, appVars, ftVars>>

NextV3 == V3_Filter \/ V3_Reset

SpecV3 == InitV3 /\ [][NextV3]_vars

---------------------------------------------------------------------------
(* Claims about Vector3OneEuroFilter, checked under SpecV3 *)

\* v3Call fields: op, prevOp, pre, resetUsed as in oefCall; pos, t, the arguments;
\* ret, the point returned; filtered, the per-axis filtered point of the call;
\* twinRet, what the twin returned for the same call.

\* C3  Dead-zone suppression: when a last emitted point exists and the distance
\* from the newly filtered point to it is below the dead-zone threshold, filter
\* returns the previously emitted point and leaves the remembered point unchanged;
\* at or above the threshold the newly filtered point is returned and remembered.
\* With deadZone 2.0, a filtered move of at most 1.0 mm gives the identical output
\* and one of at least 3.0 mm a changed output.
C3_DeadZone ==
    (v3Call.op = "filter" /\ v3Call.pre.lastOutput /= None) =>
        LET last == Val(v3Call.pre.lastOutput)
            new  == Val(v3Call.filtered)
            dist == Distance(new, last)
        IN  /\ dist < v3Call.pre.deadZone =>
                (v3Call.ret = Some(last) /\ v3.lastOutput = Some(last))
            /\ dist >= v3Call.pre.deadZone =>
                (v3Call.ret = Some(new) /\ v3.lastOutput = Some(new))
            /\ (v3Call.pre.deadZone = 2 * ONE /\ dist <= ONE) => v3Call.ret = Some(last)
            /\ (v3Call.pre.deadZone = 2 * ONE /\ dist >= 3 * ONE) => v3Call.ret /= Some(last)

\* A suppressed call: the filtered point moved, by less than the dead zone, and
\* the point emitted before is returned again.
C3_Witness ==
    /\ v3Call.op = "filter" /\ v3Call.pre.lastOutput /= None
    /\ v3Call.pre.deadZone = 2 * ONE
    /\ v3Call.filtered /= v3Call.pre.lastOutput
    /\ Distance(Val(v3Call.filtered), Val(v3Call.pre.lastOutput)) < 2 * ONE
    /\ v3Call.ret = v3Call.pre.lastOutput
    /\ v3.lastOutput = v3Call.pre.lastOutput

\* C4  The first filter call after construction or after reset() emits the
\* filtered point unconditionally, whatever was emitted before the reset, and
\* that point equals the input point.
C4_FirstEmitted ==
    (v3Call.op = "filter" /\ v3Call.prevOp \in {"new", "reset"}) =>
        /\ v3Call.ret = Some(v3Call.pos)
        /\ v3Call.filtered = Some(v3Call.pos)
        /\ v3.lastOutput = Some(v3Call.pos)

\* A first call after a reset() of a filter that had emitted a point, with a
\* dead zone configured and an input that is not the origin.
C4_Witness ==
    /\ v3Call.op = "filter" /\ v3Call.prevOp = "reset" /\ v3Call.resetUsed
    /\ v3Call.pre.deadZone > 0
    /\ v3Call.pos = Point(3 * ONE, 0, 600 * ONE)
    /\ v3Call.ret = Some(v3Call.pos)

\* C7  reset() restores the fresh state and is idempotent: after reset() every
\* later sequence of filter calls returns what the same sequence returns on a
\* newly constructed filter with the same settings (the twin), the filter and
\* each of its axis filters being in the state of the newly constructed one;
\* reset() called twice, or on a never-used filter, changes nothing further.
C7_ResetFresh ==
    /\ v3Twin /= None =>
        /\ v3 = Val(v3Twin)
        /\ v3Call.op = "filter" => v3Call.ret = v3Call.twinRet
    /\ v3Call.op = "reset" =>
        /\ v3 = Vector3OneEuroFilter_new(V3Params(v3Call.pre))
        /\ v3.filterX = OneEuroFilter_new(V3Params(v3Call.pre))
        /\ v3.filterY = v3.filterX /\ v3.filterZ = v3.filterX
    /\ (v3Call.op = "reset" /\ v3Call.prevOp \in {"new", "reset"}) => v3 = v3Call.pre

\* A smoothed (second) filter call after a reset() of a filter that had emitted
\* a point: the twin returned the same point.
C7_Witness ==
    /\ v3Twin /= None /\ v3Call.resetUsed
    /\ v3Call.op = "filter" /\ v3Call.prevOp = "filter"
    /\ v3Call.pre.filterX.tPrev /= None
    /\ v3Call.t > Val(v3Call.pre.filterX.tPrev)
    /\ v3Call.ret = v3Call.twinRet
    /\ v3Call.ret /= Some(v3Call.pos)

\* C27  Dead-zone error bound: with deadZone > 0, the point returned by a filter
\* call is the per-axis filtered point of that call or lies at a Euclidean
\* distance strictly below deadZone from it; the three axis filters advance their
\* state on every call, the calls whose output is suppressed included.
C27_DeadZoneBound ==
    (v3Call.op = "filter" /\ v3Call.pre.deadZone > 0) =>
        /\ \/ v3Call.ret = v3Call.filtered
           \/ Distance(Val(v3Call.ret), Val(v3Call.filtered)) < v3Call.pre.deadZone
        /\ v3.filterX = OneEuroFilter_filter(v3Call.pre.filterX, v3Call.pos.x, v3Call.t).f
        /\ v3.filterY = OneEuroFilter_filter(v3Call.pre.filterY, v3Call.pos.y, v3Call.t).f
        /\ v3.filterZ = OneEuroFilter_filter(v3Call.pre.filterZ, v3Call.pos.z, v3Call.t).f
        /\ v3Call.filtered =
               Some([x |-> Val(v3.filterX.xPrev), y |-> Val(v3.filterY.xPrev),
                     z |-> Val(v3.filterZ.xPrev)])

\* A suppressed call at a later timestamp: the point emitted before is returned,
\* it differs from the filtered point, and the axis filters moved on to the
\* filtered point and the new timestamp.
C27_Witness ==
    /\ v3Call.op = "filter" /\ v3Call.pre.deadZone > 0
    /\ v3Call.pre.lastOutput /= None
    /\ v3Call.ret = v3Call.pre.lastOutput
    /\ v3Call.ret /= v3Call.filtered
    /\ v3Call.t > Val(v3Call.pre.filterX.tPrev)
    /\ v3.filterX.tPrev = Some(v3Call.t)
    /\ v3.filterX /= v3Call.pre.filterX

\* C29  Filter initialisation stays consistent: after any sequence of filter and
\* reset calls, in each axis OneEuroFilter the stored timestamp, stored value and
\* stored derivative are all unset or all set; the three axis filters are all
\* initialised or all uninitialised and hold the same stored timestamp; a last
\* emitted point is remembered only when the axis filters are initialised.
C29_InitConsistent ==
    /\ \A f \in {v3.filterX, v3.filterY, v3.filterZ} :
           \/ f.tPrev = None /\ f.xPrev = None /\ f.dxPrev = None
           \/ f.tPrev /= None /\ f.xPrev /= None /\ f.dxPrev /= None
    /\ v3.filterX.tPrev = v3.filterY.tPrev
    /\ v3.filterY.tPrev = v3.filterZ.tPrev
    /\ v3.lastOutput /= None => v3.filterX.tPrev /= None

\* A reset() of a filter that had smoothed at two timestamps and emitted a
\* point: everything is unset again.
C29_Witness ==
    /\ v3Call.op = "reset" /\ v3Call.prevOp = "filter"
    /\ v3Call.pre.lastOutput /= None
    /\ v3Call.pre.filterZ.tPrev /= None
    /\ Val(v3Call.pre.filterZ.tPrev) > 0
    /\ v3Call.pre.filterZ.dxPrev /= Some(0)
    /\ v3.lastOutput = None
    /\ v3.filterX.tPrev = None /\ v3.filterY.xPrev = None /\ v3.filterZ.dxPrev = None

---------------------------------------------------------------------------
(* The specification of one HeadPoseEstimator under arbitrary calls *)

\* What estCall keeps of the call before the last (prev): its operation, whether
\* it was given a face, whether that face's irises were too narrow to trust,
\* whether the estimator was tracking when it was made, and the operation and
\* face of the call before that one.
Summary(c) ==
    [op |-> c.op, face |-> (c.lm.kind = "face"),
     untrusted |-> (c.lm.kind = "face"
                    /\ HeadPoseEstimator_irisWidthPx(c.pre, c.lm) < MIN_IRIS_PX),
     wasTracking |-> c.pre.wasTracking,
     beforeOp |-> c.prev.op, beforeFace |-> c.prev.face]

\* The last position an estimate call returned, up to and including call c.
LastRet(c) == IF c.op = "estimate" /\ c.ret /= None THEN c.ret ELSE c.lastRet

InitEst ==
    /\ \E c \in EstConfigs : est = HeadPoseEstimator_new(c)
    /\ now = 0
    /\ estCall = [op |-> "new", lm |-> LM_NULL, t |-> 0, dist |-> 0, ret |-> None,
                  raw |-> None, resets |-> 0, threw |-> FALSE, pre |-> est,
                  lastRet |-> None, calibrated |-> FALSE, tracked |-> FALSE,
                  prev |-> [op |-> "none", face |-> FALSE, untrusted |-> FALSE,
                            wasTracking |-> FALSE,
                            beforeOp |-> "none", beforeFace |-> FALSE]]
    /\ IdleOEF /\ IdleV3 /\ IdleCam /\ IdleSolver /\ IdleApp /\ IdleFT

\* estimate(landmarks); the clock it reads has not gone back since the last read.
Est_Estimate ==
    \E lm \in Landmarks, t \in ClockReadings :
        /\ t >= now
        /\ \E r \in {HeadPoseEstimator_estimate(est, lm, t)} :
               /\ est' = r.e
               /\ estCall' = [op |-> "estimate", lm |-> lm, t |-> t, dist |-> 0,
                              ret |-> r.ret, raw |-> r.raw, resets |-> r.resets,
                              threw |-> FALSE, pre |-> est, lastRet |-> LastRet(estCall),
                              calibrated |-> estCall.calibrated,
                              tracked |-> (lm.kind = "face"),
                              prev |-> Summary(estCall)]
        /\ now' = t
        /\ UNCHANGED <<oefVars, v3Vars, camVars, solverVars, appVars, ftVars>>

\* calibrate(landmarks, distanceMm) with a face.
Est_Calibrate ==
    \E lm \in Faces, d \in CalibrationDistances :
        \E r \in {HeadPoseEstimator_calibrate(est, lm, d)} :
            /\ est' = r.e
            /\ estCall' = [op |-> "calibrate", lm |-> lm, t |-> now, dist |-> d,
                           ret |-> r.ret, raw |-> None, resets |-> 0,
                           threw |-> r.threw, pre |-> est, lastRet |-> LastRet(estCall),
                           calibrated |-> (estCall.calibrated \/ ~r.threw),
                           tracked |-> estCall.tracked,
                           prev |-> Summary(estCall)]
            /\ UNCHANGED <<now, oefVars, v3Vars, camVars, solverVars, appVars, ftVars>>

\* reset()
Est_Reset ==
    /\ est' = HeadPoseEstimator_reset(est)
    /\ estCall' = [op |-> "reset", lm |-> LM_NULL, t |-> now, dist |-> 0, ret |-> None,
                   raw |-> None, resets |-> 1, threw |-> FALSE, pre |-> est,
                   lastRet |-> LastRet(estCall), calibrated |-> estCall.calibrated,
                   tracked |-> FALSE, prev |-> Summary(estCall)]
    /\ UNCHANGED <<now, oefVars, v3Vars, camVars, solverVars, appVars, ftVars>>

NextEst == Est_Estimate \/ Est_Calibrate \/ Est_Reset

SpecEst == InitEst /\ [][NextEst]_vars

---------------------------------------------------------------------------
(* Claims about HeadPoseEstimator, checked under SpecEst *)

\* estCall fields: op, the call just made ("new", "estimate", "calibrate",
\* "reset"); lm, t, dist, its landmarks, the clock it read and the calibration
\* distance; ret, its result; raw, the position estimate handed to the filter;
\* resets, the _filter.reset() calls it made; threw, whether it raised; pre, the
\* estimator before it; lastRet, the last position returned before it;
\* calibrated, whether a calibrate call has succeeded so far; tracked, whether
\* the most recent call among estimate and reset was an estimate with a face;
\* prev, the summary of the call before it.

NoSignal(c) == c.op = "estimate" /\ c.lm.kind # "face"

\* C1  Reset-on-loss: after a successful estimate, an estimate with null or empty
\* landmarks followed by estimate(L) with a face L returns exactly the raw
\* converted position of L (mm conversion, depth, sensitivity): not blended with
\* a pre-loss sample, not held by the dead zone against the pre-loss output.
C1_ResetOnLoss ==
    (/\ estCall.op = "estimate" /\ estCall.lm.kind = "face"
     /\ estCall.prev.op = "estimate" /\ ~estCall.prev.face
     /\ estCall.prev.beforeOp = "estimate" /\ estCall.prev.beforeFace) =>
        /\ estCall.ret = Some(HeadPoseEstimator_estimate_position(estCall.pre, estCall.lm))
        /\ estCall.ret = estCall.raw

\* estimate(face), estimate(no subject), estimate(L), the clock having advanced,
\* where the raw position of L lies within the dead zone of the pre-loss output
\* without being equal to it: L's raw position is returned all the same.
C1_Witness ==
    /\ estCall.op = "estimate" /\ estCall.lm.kind = "face"
    /\ estCall.prev.op = "estimate" /\ ~estCall.prev.face
    /\ estCall.prev.beforeOp = "estimate" /\ estCall.prev.beforeFace
    /\ estCall.t > 0
    /\ estCall.lastRet /= None
    /\ estCall.raw /= estCall.lastRet
    /\ Distance(Val(estCall.raw), Val(estCall.lastRet)) < estCall.pre.filter.deadZone
    /\ estCall.ret = estCall.raw

\* C2  No-signal is a steady state: an estimate call with absent or empty
\* landmarks returns none without raising; it resets the smoothing filter if and
\* only if the estimator was tracking, so that in a run of consecutive no-signal
\* calls only the first can reset; made while not tracking it changes no
\* estimator state.
C2_NoSignalSteady ==
    NoSignal(estCall) =>
        /\ estCall.ret = None /\ ~estCall.threw
        /\ estCall.resets = IF estCall.pre.wasTracking THEN 1 ELSE 0
        /\ (estCall.prev.op = "estimate" /\ ~estCall.prev.face) => estCall.resets = 0
        /\ ~estCall.pre.wasTracking => est = estCall.pre
        /\ ~est.wasTracking
        /\ est.filter = Vector3OneEuroFilter_new(V3Params(estCall.pre.filter))

\* The second of two consecutive no-signal calls made after a successful
\* estimate: no reset, no change.
C2_Witness ==
    /\ NoSignal(estCall) /\ estCall.lm = LM_EMPTY
    /\ estCall.prev.op = "estimate" /\ ~estCall.prev.face /\ estCall.prev.wasTracking
    /\ estCall.resets = 0
    /\ est = estCall.pre

\* C19: a calibrate call whose landmarks give an iris width below 5 px raises
\* and leaves the estimator as it was: focal length, iris-depth flag, smoothing
\* filter and tracking flag.
C19_CalibrationFailureAtomic ==
    (/\ estCall.op = "calibrate"
     /\ HeadPoseEstimator_irisWidthPx(estCall.pre, estCall.lm) < MIN_IRIS_PX)
        => /\ estCall.threw
           /\ estCall.ret = None
           /\ est.focalLengthPx = estCall.pre.focalLengthPx
           /\ est.useIrisDepth = estCall.pre.useIrisDepth
           /\ est.filter = estCall.pre.filter
           /\ est.wasTracking = estCall.pre.wasTracking
           /\ est = estCall.pre

\* calibrate has raised on an estimator that was tracking, with samples in its
\* filter, and that held the focal length of an earlier calibration.
C19_Witness ==
    /\ estCall.op = "calibrate" /\ estCall.threw
    /\ estCall.lm = FaceB
    /\ estCall.calibrated
    /\ est.wasTracking
    /\ est.filter /= Vector3OneEuroFilter_new(V3Params(est.filter))
    /\ est.focalLengthPx = Some(65641)

\* C20: a calibrate call whose landmarks give an iris width of at least 5 px
\* stores the focal length irisWidthPx * distanceMm / 11.7, turns iris depth on
\* whatever the configuration said, and returns the focal length it stored; from
\* then on the estimator has iris depth on and a focal length, and every
\* estimate call given a face takes its depth from _estimateDepthFromIris.
C20_CalibrationSuccess ==
    /\ (/\ estCall.op = "calibrate"
        /\ HeadPoseEstimator_irisWidthPx(estCall.pre, estCall.lm) >= MIN_IRIS_PX)
           => /\ ~estCall.threw
              /\ estCall.calibrated
              /\ est.focalLengthPx
                     = Some(Div(Mul(HeadPoseEstimator_irisWidthPx(estCall.pre, estCall.lm),
                                    estCall.dist), IRIS_DIAMETER_MM))
              /\ est.useIrisDepth
              /\ estCall.ret = est.focalLengthPx
    /\ estCall.calibrated => (est.useIrisDepth /\ est.focalLengthPx /= None)
    /\ (estCall.calibrated /\ estCall.op = "estimate" /\ estCall.lm.kind = "face")
           => /\ estCall.pre.useIrisDepth /\ estCall.pre.focalLengthPx /= None
              /\ Val(estCall.raw).z
                     = estCall.pre.defaultZ
                         + Mul(HeadPoseEstimator_estimateDepthFromIris(estCall.pre,
                                   estCall.lm) - estCall.pre.defaultZ,
                               estCall.pre.sensZ)

\* An estimator configured with iris depth off was calibrated at 600 mm with
\* irises 12.8 px wide (focal length 656.41 px); the estimate call just made,
\* given the nearer face with irises 16 px wide, placed it at 480 mm.
C20_Witness ==
    /\ estCall.op = "estimate" /\ estCall.lm = FaceC
    /\ estCall.calibrated
    /\ est.sensZ = ONE
    /\ est.focalLengthPx = Some(65641)
    /\ Val(estCall.raw).z = 480 * ONE
    /\ Val(estCall.raw).z /= est.defaultZ

\* The call just made is an estimate with a face that follows a calibrate call,
\* and the estimator it was made on had iris depth on and the focal length of
\* a calibration at 600 mm with the iris width of this face.
RoundTrip ==
    /\ estCall.op = "estimate" /\ estCall.lm.kind = "face"
    /\ estCall.prev.op = "calibrate"
    /\ HeadPoseEstimator_irisWidthPx(estCall.pre, estCall.lm) >= MIN_IRIS_PX
    /\ estCall.pre.useIrisDepth
    /\ estCall.pre.focalLengthPx
           = Some(Div(Mul(HeadPoseEstimator_irisWidthPx(estCall.pre, estCall.lm),
                          600 * ONE), IRIS_DIAMETER_MM))

\* C21: calibrate(landmarks, 600) followed by estimate(sameLandmarks) measures
\* the depth 600 mm up to rounding (0.02 mm here); the z handed to the filter
\* is that depth scaled about the default distance by sensitivityZ, hence 600
\* when sensitivityZ is 1; and the position returned has that z when, besides,
\* the smoothing filter held no earlier sample.
C21_RoundTrip ==
    RoundTrip
        => /\ Abs(HeadPoseEstimator_estimateDepthFromIris(estCall.pre, estCall.lm)
                      - 600 * ONE) <= 2
           /\ Val(estCall.raw).z
                  = estCall.pre.defaultZ
                      + Mul(HeadPoseEstimator_estimateDepthFromIris(estCall.pre,
                                estCall.lm) - estCall.pre.defaultZ,
                            estCall.pre.sensZ)
           /\ estCall.pre.sensZ = ONE => Abs(Val(estCall.raw).z - 600 * ONE) <= 2
           /\ (/\ estCall.pre.sensZ = ONE
               /\ estCall.pre.filter
                      = Vector3OneEuroFilter_new(V3Params(estCall.pre.filter)))
                  => Abs(Val(estCall.ret).z - 600 * ONE) <= 2

\* C21 as stated: calibrate(landmarks, 600) followed by estimate(sameLandmarks)
\* returns a position whose z is 600 up to rounding.
C21_RoundTripAsStated ==
    RoundTrip => Abs(Val(estCall.ret).z - 600 * ONE) <= 2

\* A new estimator configured with iris depth off was calibrated at 600 mm with
\* FaceA and then estimated FaceA: it returned z = 600.
C21_Witness ==
    /\ RoundTrip
    /\ estCall.lm = FaceA
    /\ estCall.pre.sensZ = ONE
    /\ estCall.pre.filter = Vector3OneEuroFilter_new(V3Params(estCall.pre.filter))
    /\ estCall.prev.beforeOp = "new"
    /\ Val(estCall.ret).z = 600 * ONE

\* The converted position of estimate before the sensitivity scaling: x and y in
\* mm from the screen centre, z the measured depth or the default distance.
UnscaledPosition(e, landmarks) ==
    [x |-> Mul(landmarks.nose.x - ONE \div 2, e.screenW),
     y |-> Mul(ONE \div 2 - landmarks.nose.y, e.screenH),
     z |-> IF e.useIrisDepth /\ e.focalLengthPx /= None
           THEN HeadPoseEstimator_estimateDepthFromIris(e, landmarks)
           ELSE e.defaultZ]

\* C22: the position an estimate call hands to the smoothing filter is the
\* converted position with x and y scaled about 0 by sensitivityX and
\* sensitivityY and z scaled about the default distance by sensitivityZ: it is
\* the converted position itself when the three sensitivities are 1, and its z
\* is the default distance when sensitivityZ is 0, whatever depth was measured.
C22_SensitivityScaling ==
    (estCall.op = "estimate" /\ estCall.lm.kind = "face")
        => LET e == estCall.pre
               u == UnscaledPosition(estCall.pre, estCall.lm)
               p == Val(estCall.raw)
           IN  /\ p.x = Mul(u.x, e.sensX)
               /\ p.y = Mul(u.y, e.sensY)
               /\ p.z - e.defaultZ = Mul(u.z - e.defaultZ, e.sensZ)
               /\ (e.sensX = ONE /\ e.sensY = ONE /\ e.sensZ = ONE) => p = u
               /\ e.sensZ = 0 => p.z = e.defaultZ

\* An estimator with sensitivities 2, 0.5 and 0 measured a depth other than the
\* default distance for an off-centre face: x doubled, y halved, z the default.
C22_Witness ==
    /\ estCall.op = "estimate" /\ estCall.lm = FaceC
    /\ estCall.pre.sensX = 2 * ONE /\ estCall.pre.sensZ = 0
    /\ UnscaledPosition(estCall.pre, estCall.lm).z /= estCall.pre.defaultZ
    /\ UnscaledPosition(estCall.pre, estCall.lm).x = 1032
    /\ Val(estCall.raw).x = 2064
    /\ Val(estCall.raw).z = estCall.pre.defaultZ

\* The depth of the frame cannot be trusted: iris depth is off, or no focal
\* length is known, or the iris is narrower than 5 px.
UntrustedDepth(e, landmarks) ==
    \/ ~e.useIrisDepth
    \/ e.focalLengthPx = None
    \/ HeadPoseEstimator_irisWidthPx(e, landmarks) < MIN_IRIS_PX

\* C23: an estimate call given a face never raises and changes neither the
\* focal length nor the iris-depth flag; when the depth of its frame cannot be
\* trusted the z it hands to the filter is the default viewing distance, and
\* when it can be trusted, also right after an untrusted frame, it is the
\* pinhole depth focal * 11.7 / irisPx scaled about the default distance.
C23_UntrustedDepthFallback ==
    (estCall.op = "estimate" /\ estCall.lm.kind = "face")
        => /\ ~estCall.threw
           /\ estCall.ret /= None
           /\ est.focalLengthPx = estCall.pre.focalLengthPx
           /\ est.useIrisDepth = estCall.pre.useIrisDepth
           /\ UntrustedDepth(estCall.pre, estCall.lm)
                  => Val(estCall.raw).z = estCall.pre.defaultZ
           /\ ~UntrustedDepth(estCall.pre, estCall.lm)
                  => Val(estCall.raw).z
                         = estCall.pre.defaultZ
                             + Mul(Div(Mul(Val(estCall.pre.focalLengthPx),
                                           IRIS_DIAMETER_MM),
                                       HeadPoseEstimator_irisWidthPx(estCall.pre,
                                                                     estCall.lm))
                                       - estCall.pre.defaultZ,
                                   estCall.pre.sensZ)

\* A calibrated estimator was given a frame with irises too narrow to trust and
\* then one with irises 12.8 px wide: the second has the pinhole depth, which
\* is not the default distance.
C23_Witness ==
    /\ estCall.op = "estimate" /\ estCall.lm = FaceA
    /\ estCall.prev.op = "estimate" /\ estCall.prev.untrusted
    /\ estCall.calibrated
    /\ estCall.pre.sensZ = ONE
    /\ ~UntrustedDepth(estCall.pre, estCall.lm)
    /\ Val(estCall.raw).z = 750 * ONE
    /\ estCall.pre.defaultZ = 600 * ONE

\* C30  The tracking flag mirrors the last input: after any sequence of estimate,
\* reset and calibrate calls the tracking flag is true exactly when the most
\* recent call among estimate and reset was an estimate with non-empty landmarks;
\* whenever the flag is false the smoothing filter is in its fresh state.
\* calibrate changes neither the flag nor the filter, and reset() changes neither
\* the focal length nor the iris-depth flag.
C30_TrackingFlag ==
    /\ est.wasTracking = estCall.tracked
    /\ ~est.wasTracking => est.filter = Vector3OneEuroFilter_new(V3Params(est.filter))
    /\ estCall.op = "calibrate" =>
        /\ est.wasTracking = estCall.pre.wasTracking
        /\ est.filter = estCall.pre.filter
    /\ estCall.op = "reset" =>
        /\ est.focalLengthPx = estCall.pre.focalLengthPx
        /\ est.useIrisDepth = estCall.pre.useIrisDepth

\* reset() right after a successful calibrate on an estimator that was tracking
\* and had smoothed positions: the flag is cleared, the filter fresh, the
\* calibration kept.
C30_Witness ==
    /\ estCall.op = "reset" /\ estCall.prev.op = "calibrate"
    /\ estCall.pre.wasTracking
    /\ estCall.pre.filter.lastOutput /= None
    /\ estCall.pre.focalLengthPx /= None /\ estCall.pre.useIrisDepth
    /\ ~est.wasTracking
    /\ est.filter.lastOutput = None /\ est.filter.filterX.tPrev = None
    /\ est.focalLengthPx = estCall.pre.focalLengthPx /\ est.useIrisDepth

---------------------------------------------------------------------------
(* The specification of an OffAxisCamera and the SceneManager built on it:    *)
(* construction, then updateFromHeadPosition, window resizes and renders in   *)
(* any order.                                                                 *)

InitCam ==
    /\ cam = None
    /\ scene = None
    /\ camCall = [op |-> "none", eye |-> None, lastEye |-> None, config |-> None]
    /\ IdleOEF /\ IdleV3 /\ IdleEst /\ IdleSolver /\ IdleApp /\ IdleFT

\* new OffAxisCamera(config)
Cam_New ==
    /\ cam = None
    /\ \E config \in CamConfigs :
        /\ cam' = OffAxisCamera_new(config)
        /\ camCall' = [op |-> "new", eye |-> None,
                       lastEye |-> Some(Point(0, 0, config.defaultViewingDistance)),
                       config |-> Some(config)]
    /\ UNCHANGED <<scene, oefVars, v3Vars, estVars, solverVars, appVars, ftVars>>

\* new SceneManager(offAxisCamera)
Scene_New ==
    /\ cam /= None /\ scene = None
    /\ \E size \in WindowSizes : scene' = SceneManager_new(size)
    /\ camCall' = [camCall EXCEPT !.op = "scene", !.eye = None]
    /\ UNCHANGED <<cam, oefVars, v3Vars, estVars, solverVars, appVars, ftVars>>

\* offAxisCamera.updateFromHeadPosition(headPos)
Cam_Update ==
    /\ cam /= None
    /\ \E headPos \in Eyes :
        /\ cam' = OffAxisCamera_updateFromHeadPosition(cam, headPos)
        /\ camCall' = [camCall EXCEPT !.op = "update", !.eye = Some(headPos),
                                      !.lastEye = Some(headPos)]
    /\ UNCHANGED <<scene, oefVars, v3Vars, estVars, solverVars, appVars, ftVars>>

\* The window is resized: the registered listener _onResize runs.
Scene_Resize ==
    /\ scene /= None /\ scene.listening
    /\ \E size \in WindowSizes :
        \E r \in {SceneManager_onResize(scene, cam.camera, size)} :
            /\ scene' = r.sm
            /\ cam' = [cam EXCEPT !.camera = r.camera]
    /\ camCall' = [camCall EXCEPT !.op = "resize", !.eye = None]
    /\ UNCHANGED <<oefVars, v3Vars, estVars, solverVars, appVars, ftVars>>

\* sceneManager.render()
Scene_Render ==
    /\ scene /= None
    /\ \E r \in {SceneManager_render(scene, cam.camera)} :
           /\ scene' = r.sm
           /\ cam' = [cam EXCEPT !.camera = r.camera]
    /\ camCall' = [camCall EXCEPT !.op = "render", !.eye = None]
    /\ UNCHANGED <<oefVars, v3Vars, estVars, solverVars, appVars, ftVars>>

\* sceneManager.dispose()
Scene_Dispose ==
    /\ scene /= None /\ scene.listening
    /\ scene' = SceneManager_dispose(scene)
    /\ camCall' = [camCall EXCEPT !.op = "dispose", !.eye = None]
    /\ UNCHANGED <<cam, oefVars, v3Vars, estVars, solverVars, appVars, ftVars>>

NextCam ==
    Cam_New \/ Scene_New \/ Cam_Update \/ Scene_Resize \/ Scene_Render \/ Scene_Dispose

SpecCam == InitCam /\ [][NextCam]_vars

---------------------------------------------------------------------------
(* Claims about OffAxisCamera and SceneManager, checked under SpecCam *)

\* camCall fields: op, the step just taken ("none", "new", "scene", "update",
\* "resize", "render", "dispose"); eye, the argument of an update; lastEye, the eye of the
\* most recent updateFromHeadPosition call, the constructor's included; config,
\* the configuration the camera was constructed with.

\* The projection matrix built from the off-axis frustum of the eye, for the
\* camera's screen and clip planes.
OffAxisProjection(config, eye) ==
    LET f == calculateOffAxisFrustum(eye,
                 [width |-> config.screenWidthMm, height |-> config.screenHeightMm],
                 config.nearClip, config.farClip)
    IN  Matrix4_makePerspective(f.left, f.right, f.top, f.bottom, f.near, f.far)

\* The projection three.js computes from the field of view for that camera.
FovProjection(config) ==
    PerspectiveCamera_new(Rat(config.screenWidthMm, config.screenHeightMm),
                          config.nearClip, config.farClip).projectionMatrix

\* C8  The asymmetric projection is never overwritten: in any sequence of
\* construction, updateFromHeadPosition, window-resize and render events the
\* camera's projection is the one built from the frustum of the most recent
\* updateFromHeadPosition call (or of the constructor's initial update), never
\* the one computed from the field of view, and every frame is rendered with it.
C8_ProjectionKept ==
    cam /= None =>
        LET expected == OffAxisProjection(Val(camCall.config), Val(camCall.lastEye))
        IN  /\ cam.camera.projectionMatrix = expected
            /\ cam.camera.projectionMatrix /= FovProjection(Val(camCall.config))
            /\ camCall.op = "render" =>
                   Val(scene.rendered).projectionMatrix = expected

\* A frame rendered after an off-centre update followed by a window resize that
\* changed the renderer's size.
C8_Witness ==
    /\ camCall.op = "render"
    /\ camCall.lastEye = Some(Point(50 * ONE, -30 * ONE, 450 * ONE))
    /\ Val(scene.rendered).size = [w |-> 800, h |-> 600]
    /\ Val(scene.rendered).projectionMatrix.left /= RatNeg(Val(scene.rendered).projectionMatrix.right)

\* C9  Construction performs an initial update with the centred eye
\* (0, 0, defaultViewingDistance): from the constructor's return on, until the
\* first updateFromHeadPosition call, the projection is the off-axis frustum for
\* that eye and the camera is positioned at that eye, in every frame rendered
\* too; it is never the default symmetric field-of-view projection.
C9_InitialUpdate ==
    (cam /= None /\ camCall.lastEye = Some(Point(0, 0, Val(camCall.config).defaultViewingDistance))
                 /\ camCall.op \in {"new", "scene", "resize", "render", "dispose"}) =>
        LET config == Val(camCall.config)
            eye0   == Point(0, 0, config.defaultViewingDistance)
        IN  /\ cam.camera.projectionMatrix = OffAxisProjection(config, eye0)
            /\ cam.camera.projectionMatrix /= FovProjection(config)
            /\ cam.camera.position = eye0
            /\ cam.camera.matrixWorld.position = eye0
            /\ camCall.op = "render" =>
                /\ Val(scene.rendered).projectionMatrix = OffAxisProjection(config, eye0)
                /\ Val(scene.rendered).matrixWorld.position = eye0

\* The constructor has just returned, for the configuration of config.js.
C9_Witness ==
    /\ camCall.op = "new"
    /\ Val(camCall.config).defaultViewingDistance = 600 * ONE
    /\ cam.camera.position = Point(0, 0, 600 * ONE)
    /\ cam.camera.projectionMatrix.right = Rat(172, 600)
    /\ cam.camera.projectionMatrix.top = Rat(1075, 6000)

\* C10  After every updateFromHeadPosition(eyePos) the camera's world position
\* equals eyePos, the camera is oriented toward (eyePos.x, eyePos.y, 0), the foot
\* of the eye on the screen plane, and the cached inverse projection is the
\* inverse of the projection just written.
C10_PoseAfterUpdate ==
    camCall.op = "update" =>
        LET eyePos == Val(camCall.eye)
            foot   == Point(eyePos.x, eyePos.y, 0)
            fwd    == cam.camera.matrixWorld.forward
        IN  /\ cam.camera.position = eyePos
            /\ cam.camera.matrixWorld.position = eyePos
            /\ \E s \in 0..(Abs(eyePos.z)) :
                   /\ foot.x - eyePos.x = s * fwd.x
                   /\ foot.y - eyePos.y = s * fwd.y
                   /\ foot.z - eyePos.z = s * fwd.z
            /\ cam.camera.projectionMatrix =
                   OffAxisProjection(Val(camCall.config), eyePos)
            /\ cam.camera.projectionMatrixInverse =
                   Matrix4_invert(cam.camera.projectionMatrix)

\* An update with an off-centre eye in front of the screen.
C10_Witness ==
    /\ camCall.op = "update"
    /\ camCall.eye = Some(Point(50 * ONE, -30 * ONE, 450 * ONE))
    /\ cam.camera.position = Point(50 * ONE, -30 * ONE, 450 * ONE)
    /\ cam.camera.matrixWorld.forward = Point(0, 0, -1)

\* C28  Camera pose and frustum are computed from the same eye: after every
\* updateFromHeadPosition(eyePos), eyePos.z <= 0 included, the eye-to-screen
\* distance the frustum written to the camera is scaled by equals the z of the
\* camera's world position, and the camera looks toward -Z from in front of the
\* screen plane.
C28_SameEye ==
    camCall.op = "update" =>
        LET config == Val(camCall.config)
            d  == calculateOffAxisFrustum_d(Val(camCall.eye),
                      [width |-> config.screenWidthMm, height |-> config.screenHeightMm],
                      config.nearClip, config.farClip)
            pm == cam.camera.projectionMatrix
        IN  /\ RatSub(pm.right, pm.left) =
                   RatMul(RatOf(config.screenWidthMm), Rat(config.nearClip, d))
            /\ d = cam.camera.matrixWorld.position.z
            /\ cam.camera.matrixWorld.position.z > 0
            /\ cam.camera.matrixWorld.forward.z < 0

---------------------------------------------------------------------------
(* The specification of the application once init() has completed: the       *)
(* tracker's detection loop, the render loop and window resizes, interleaved. *)

InitApp ==
    /\ cam = OffAxisCamera_new(AppCamConfig)
    /\ \E size \in WindowSizes : scene = SceneManager_new(size)
    /\ tracker = FaceTracker_started
    /\ est = HeadPoseEstimator_new(BaseConfig)
    /\ now = 0
    /\ tick = [op |-> "init", landmarks |-> LM_NULL, headPos |-> None, estimates |-> 0,
               t |-> 0, preCam |-> cam, preEst |-> est]
    /\ estCall = None /\ camCall = None
    /\ IdleOEF /\ IdleV3 /\ IdleSolver /\ IdleFT

\* The tracker's detection loop handles a new video frame.
App_Detect ==
    /\ \E result \in DetectionResults : tracker' = FaceTracker_detect(tracker, result)
    /\ tick' = [tick EXCEPT !.op = "detect"]
    /\ UNCHANGED <<est, now, estCall, camVars, oefVars, v3Vars, solverVars, ftVars>>

\* One pass of the render loop; the clock has not gone back.
App_Animate ==
    /\ \E t \in ClockReadings :
        /\ t >= now
        /\ \E r \in {animate(tracker, est, cam, scene, t)} :
            /\ est' = r.est
            /\ cam' = r.cam
            /\ scene' = r.scene
            /\ tick' = [op |-> "animate", landmarks |-> r.landmarks, headPos |-> r.headPos,
                        estimates |-> r.estimates, t |-> t, preCam |-> cam, preEst |-> est]
        /\ now' = t
    /\ UNCHANGED <<tracker, estCall, camCall, oefVars, v3Vars, solverVars, ftVars>>

\* The window is resized.
App_Resize ==
    /\ \E size \in WindowSizes :
        \E r \in {SceneManager_onResize(scene, cam.camera, size)} :
            /\ r.sm /= scene
            /\ scene' = r.sm
            /\ cam' = [cam EXCEPT !.camera = r.camera]
    /\ tick' = [tick EXCEPT !.op = "resize"]
    /\ UNCHANGED <<tracker, est, now, estCall, camCall, oefVars, v3Vars, solverVars, ftVars>>

NextApp == App_Detect \/ App_Animate \/ App_Resize

SpecApp == InitApp /\ [][NextApp]_vars

---------------------------------------------------------------------------
(* Claims about the render loop, checked under SpecApp *)

\* tick fields: op, the step just taken ("init", "detect", "animate", "resize");
\* of the last animate pass: landmarks, the landmarks it read; headPos, the
\* position estimate returned; estimates, the estimate calls it made; t, its clock
\* reading; preCam, preEst, the camera and the estimator before it.

\* C11  A render tick never waits and tolerates absent data: a pass of the loop
\* reads the tracker's latest landmarks, whatever the tracker holds at that
\* moment, calls estimate once on them and renders; when estimate
\* returns none the camera's projection and pose are those before the pass, and
\* the frame is rendered with them; when it returns a position the frame is
\* rendered with the projection and the pose of that position.
C11_RenderTick ==
    (tick /= None /\ tick.op = "animate") =>
        /\ tick.landmarks = FaceTracker_getLatestLandmarks(tracker)
        /\ tick.estimates = 1
        /\ est = HeadPoseEstimator_estimate(tick.preEst, tick.landmarks, tick.t).e
        /\ tick.headPos = HeadPoseEstimator_estimate(tick.preEst, tick.landmarks, tick.t).ret
        /\ scene.rendered /= None
        /\ tick.headPos = None =>
            /\ cam = tick.preCam
            /\ Val(scene.rendered).projectionMatrix = tick.preCam.camera.projectionMatrix
            /\ Val(scene.rendered).matrixWorld = tick.preCam.camera.matrixWorld
        /\ tick.headPos /= None =>
            /\ cam = OffAxisCamera_updateFromHeadPosition(tick.preCam, Val(tick.headPos))
            /\ Val(scene.rendered).projectionMatrix =
                   OffAxisProjection(AppCamConfig, Val(tick.headPos))
            /\ Val(scene.rendered).matrixWorld.position = Val(tick.headPos)

\* A pass that found no face after passes that had moved the camera off centre:
\* the frame is rendered with the off-centre projection of the last update.
C11_Witness ==
    /\ tick /= None /\ tick.op = "animate"
    /\ tick.landmarks = LM_NULL /\ tick.headPos = None
    /\ tick.preEst.wasTracking
    /\ cam.camera.position.x /= 0
    /\ Val(scene.rendered).projectionMatrix = cam.camera.projectionMatrix
    /\ Val(scene.rendered).projectionMatrix.left /=
           RatNeg(Val(scene.rendered).projectionMatrix.right)

---------------------------------------------------------------------------
(* The specification of the projection solver: calls of both variants with   *)
(* arbitrary arguments, evaluated one activation at a time.                   *)

InitSolver ==
    /\ solver = [status |-> "idle"]
    /\ IdleOEF /\ IdleV3 /\ IdleEst /\ IdleCam /\ IdleApp /\ IdleFT

\* The state of a call just made: its arguments, the eye of the activation to
\* evaluate next, the number of recursive calls made so far.
SolverCall(variant, eyePos, screen, corners, clip) ==
    [status |-> "running", variant |-> variant,
     args |-> [eyePos |-> eyePos, screen |-> screen, corners |-> corners,
               near |-> clip.near, far |-> clip.far],
     eyePos |-> eyePos, depth |-> 0, d |-> None, ret |-> None]

\* The activation the call is at.
SolverActivation(c) ==
    IF c.variant = "axis"
    THEN calculateOffAxisFrustum_activation(c.eyePos, c.args.screen, c.args.near,
                                            c.args.far)
    ELSE calculateGeneralizedProjection_activation(c.eyePos, c.args.corners.LL,
             c.args.corners.LR, c.args.corners.UL, c.args.near, c.args.far)

\* A caller calls calculateOffAxisFrustum(eyePos, screen, near, far).
Solver_CallAxis ==
    /\ solver.status /= "running"
    /\ \E eyePos \in SolverEyes, screen \in Screens, clip \in Clips :
           solver' = SolverCall("axis", eyePos, screen, AxisCorners(screen), clip)
    /\ UNCHANGED <<oefVars, v3Vars, estVars, camVars, appVars, ftVars>>

\* A caller calls calculateGeneralizedProjection(eyePos, screenLL, screenLR,
\* screenUL, near, far).
Solver_CallGeneral ==
    /\ solver.status /= "running"
    /\ \E eyePos \in SolverEyes, corners \in CornerSets, clip \in Clips :
           solver' = SolverCall("general", eyePos, None, corners, clip)
    /\ UNCHANGED <<oefVars, v3Vars, estVars, camVars, appVars, ftVars>>

\* The activation finds d <= 0 and calls the function again with the moved eye.
\* When the moved eye is the eye it was given, every further activation repeats
\* this one and the engine ends the call with a RangeError once its stack is
\* exhausted.
Solver_Retry ==
    /\ solver.status = "running"
    /\ \E a \in {SolverActivation(solver)} :
           /\ a.retry
           /\ solver' = IF a.eyePos = solver.eyePos
                         THEN [solver EXCEPT !.status = "threw", !.d = Some(a.d),
                                             !.depth = MaxDepth]
                         ELSE [solver EXCEPT !.eyePos = a.eyePos, !.d = Some(a.d),
                                             !.depth = @ + 1]
           /\ a.eyePos /= solver.eyePos => solver.depth < MaxDepth
    /\ UNCHANGED <<oefVars, v3Vars, estVars, camVars, appVars, ftVars>>

\* The activation finds d > 0 and returns its frustum, which every enclosing
\* activation returns in turn.
Solver_Return ==
    /\ solver.status = "running"
    /\ \E a \in {SolverActivation(solver)} :
           /\ ~a.retry
           /\ solver' = [solver EXCEPT !.status = "returned", !.d = Some(a.d),
                                        !.ret = Some(a.frustum)]
    /\ UNCHANGED <<oefVars, v3Vars, estVars, camVars, appVars, ftVars>>

NextSolver == Solver_CallAxis \/ Solver_CallGeneral \/ Solver_Retry \/ Solver_Return

SpecSolver == InitSolver /\ [][NextSolver]_vars

\* C12: a call of calculateOffAxisFrustum with an eye on or behind the screen
\* plane (z <= 0) never raises, and when it has returned its result is exactly
\* the frustum of the eye with the same x and y and z = 1, computed with a
\* positive divisor d by an activation that was given a new eye, the eye
\* passed in being kept as the caller gave it.
C12_DegenerateEyeFallback ==
    (solver.status /= "idle" /\ solver.variant = "axis" /\ solver.args.eyePos.z <= 0)
        => /\ solver.status /= "threw"
           /\ solver.status = "returned"
                  => /\ Val(solver.d) > 0
                     /\ solver.eyePos = [solver.args.eyePos EXCEPT !.z = ONE]
                     /\ Val(solver.ret)
                            = calculateOffAxisFrustum(
                                  [solver.args.eyePos EXCEPT !.z = ONE],
                                  solver.args.screen, solver.args.near,
                                  solver.args.far)

\* A call with the eye (5, 3, 0) has returned.
C12_Witness ==
    /\ solver.status = "returned"
    /\ solver.variant = "axis"
    /\ solver.args.eyePos = Point(5 * ONE, 3 * ONE, 0)
    /\ solver.depth = 1

\* C13: whatever the eye, a frustum returned by calculateOffAxisFrustum or by
\* calculateGeneralizedProjection has left < right and bottom < top, and its
\* near and far are the near and far the caller passed.
C13_NeverInverted ==
    solver.status = "returned"
        => /\ RatLess(Val(solver.ret).left, Val(solver.ret).right)
           /\ RatLess(Val(solver.ret).bottom, Val(solver.ret).top)
           /\ Val(solver.ret).near = solver.args.near
           /\ Val(solver.ret).far = solver.args.far

\* A call of the generalized variant with the eye behind the tilted screen has
\* returned.
C13_Witness ==
    /\ solver.status = "returned"
    /\ solver.variant = "general"
    /\ solver.args.corners = TiltedCorners
    /\ solver.args.eyePos = Point(10 * ONE, 10 * ONE, -50 * ONE)
    /\ solver.depth = 1
    /\ solver.args.near = 10 * ONE

\* C14: whenever an activation finds d <= 0, the call it makes finds d > 0: no
\* call of either variant makes more than one recursive call, none ends with an
\* error, and a call that returned after a recursive call divided by a
\* positive d.
C14_OneRetry ==
    solver.status /= "idle"
        => /\ solver.depth <= 1
           /\ solver.status /= "threw"
           /\ (solver.status = "returned" /\ solver.depth = 1) => Val(solver.d) > 0

\* C15: for the eye (0, 0, D) with D > 0, the frustum returned has
\* left = -right and bottom = -top, by calculateOffAxisFrustum and by
\* calculateGeneralizedProjection given the corners of an origin-centred screen.
C15_CenteredSymmetry ==
    (/\ solver.status = "returned"
     /\ solver.args.eyePos.x = 0 /\ solver.args.eyePos.y = 0
     /\ solver.args.eyePos.z > 0
     /\ solver.variant = "general"
            => \E screen \in Screens : solver.args.corners = AxisCorners(screen))
        => /\ Val(solver.ret).left = RatNeg(Val(solver.ret).right)
           /\ Val(solver.ret).bottom = RatNeg(Val(solver.ret).top)

\* The generalized variant has returned the frustum of a centred eye for the
\* corners of the 400 by 300 mm screen.
C15_Witness ==
    /\ solver.status = "returned"
    /\ solver.variant = "general"
    /\ solver.args.corners = AxisCorners([width |-> 400 * ONE, height |-> 300 * ONE])
    /\ solver.args.eyePos = Point(0, 0, 450 * ONE)
    /\ solver.depth = 0

\* The call of the end-to-end example: screen 344 by 215 mm, near 1, far 10000,
\* eye (0, 0, 600), calculateOffAxisFrustum returned.
ExampleReturned ==
    /\ solver.status = "returned"
    /\ solver.variant = "axis"
    /\ solver.args.screen = [width |-> 344 * ONE, height |-> 215 * ONE]
    /\ solver.args.near = ONE
    /\ solver.args.far = 10000 * ONE
    /\ solver.args.eyePos = Point(0, 0, 600 * ONE)

\* C16: for the screen 344 by 215 mm, near 1, far 10000 and the eye (0, 0, 600),
\* calculateOffAxisFrustum returns the half-extents scaled by k = near / d = 1/600:
\* left = -172/600, right = 172/600, bottom = -107.5/600, top = 107.5/600.
C16_ExampleScaled ==
    ExampleReturned
        => /\ Val(solver.ret).left = Rat(-172, 600)
           /\ Val(solver.ret).right = Rat(172, 600)
           /\ Val(solver.ret).bottom = Rat(-1075, 6000)
           /\ Val(solver.ret).top = Rat(1075, 6000)
           /\ Val(solver.ret).near = ONE
           /\ Val(solver.ret).far = 10000 * ONE

\* C16 as stated: for that call the frustum returned is left = -172,
\* right = 172, bottom = -107.5, top = 107.5.
C16_ExampleAsStated ==
    ExampleReturned
        => /\ Val(solver.ret).left = Rat(-172, 1)
           /\ Val(solver.ret).right = Rat(172, 1)
           /\ Val(solver.ret).bottom = Rat(-1075, 10)
           /\ Val(solver.ret).top = Rat(1075, 10)

\* The call of the example has returned, without a recursive call.
C16_Witness == ExampleReturned /\ solver.depth = 0 /\ Val(solver.d) = 600 * ONE

\* C17: for an eye with z > 0 calculateOffAxisFrustum returns
\* left = (-W/2 - x) * near / z, right = (W/2 - x) * near / z,
\* bottom = (-H/2 - y) * near / z and top = (H/2 - y) * near / z, so that
\* right - left = W * near / z and top - bottom = H * near / z whatever x and y.
C17_FrustumFormula ==
    (solver.status = "returned" /\ solver.variant = "axis" /\ solver.args.eyePos.z > 0)
        => LET W    == solver.args.screen.width
               H    == solver.args.screen.height
               x    == solver.args.eyePos.x
               y    == solver.args.eyePos.y
               z    == solver.args.eyePos.z
               near == solver.args.near
               f    == Val(solver.ret)
           IN  /\ f.left   = Rat((-W - 2 * x) * near, 2 * ONE * z)
               /\ f.right  = Rat((W - 2 * x) * near, 2 * ONE * z)
               /\ f.bottom = Rat((-H - 2 * y) * near, 2 * ONE * z)
               /\ f.top    = Rat((H - 2 * y) * near, 2 * ONE * z)
               /\ RatSub(f.right, f.left) = Rat(W * near, ONE * z)
               /\ RatSub(f.top, f.bottom) = Rat(H * near, ONE * z)

\* A call with the off-centre eye (50, -30, 450) has returned.
C17_Witness ==
    /\ solver.status = "returned"
    /\ solver.variant = "axis"
    /\ solver.args.eyePos = Point(50 * ONE, -30 * ONE, 450 * ONE)
    /\ solver.args.near = 10 * ONE
    /\ solver.depth = 0

---------------------------------------------------------------------------
(* The specification of one FaceTracker: init() resumed await by await, the   *)
(* browser running animation frames and showing video frames, and destroy()  *)
(* called at any point after init() was called.                               *)

\* ftCall, the step just taken: op; destroyed, whether destroy() has been called
\* so far; detected and threw, whether the step called detectForVideo and
\* whether that call threw; onLandmarks and onError, the calls it made to the
\* callbacks; pre, the tracker before it.
FTStep(op, destroyed, r) ==
    [op |-> op, destroyed |-> destroyed, detected |-> r.detected, threw |-> r.threw,
     onLandmarks |-> r.onLandmarks, onError |-> r.onError, pre |-> ft]

\* A step that does not run _detect(), leaving the tracker as t.
Quiet(t) ==
    [t |-> t, detected |-> FALSE, threw |-> FALSE, onLandmarks |-> 0, onError |-> 0]

InitFT ==
    /\ \E options \in TrackerOptions : ft = FaceTracker_new(options)
    /\ ftCall = [op |-> "new", destroyed |-> FALSE, detected |-> FALSE,
                 threw |-> FALSE, onLandmarks |-> 0, onError |-> 0, pre |-> ft]
    /\ IdleOEF /\ IdleV3 /\ IdleEst /\ IdleCam /\ IdleSolver /\ IdleApp

\* init() is called.
FT_Init ==
    /\ ft.init = "notCalled"
    /\ ft' = FaceTracker_init_call(ft)
    /\ ftCall' = FTStep("init", ftCall.destroyed, Quiet(ft'))
    /\ UNCHANGED <<oefVars, v3Vars, estVars, camVars, solverVars, appVars>>

\* getUserMedia resolves.
FT_StreamGranted ==
    /\ ft.init = "getUserMedia"
    /\ ft' = FaceTracker_init_stream(ft)
    /\ ftCall' = FTStep("stream", ftCall.destroyed, Quiet(ft'))
    /\ UNCHANGED <<oefVars, v3Vars, estVars, camVars, solverVars, appVars>>

\* The video element's loadeddata event resolves the promise _initWebcam awaits.
FT_VideoLoaded ==
    /\ ft.init = "loadeddata"
    /\ ft' = FaceTracker_init_loaded(ft)
    /\ ftCall' = FTStep("loaded", ftCall.destroyed, Quiet(ft'))
    /\ UNCHANGED <<oefVars, v3Vars, estVars, camVars, solverVars, appVars>>

\* FaceLandmarker.createFromOptions resolves.
FT_ModelLoaded ==
    /\ ft.init = "model"
    /\ ft.nextId <= MaxFrames
    /\ \E outcome \in DetectOutcomes :
           \E r \in {FaceTracker_init_model(ft, outcome)} :
               /\ ft' = r.t
               /\ ftCall' = FTStep("model", ftCall.destroyed, r)
    /\ UNCHANGED <<oefVars, v3Vars, estVars, camVars, solverVars, appVars>>

\* The promise init() awaits is rejected: no permission, no camera, no model.
FT_InitRejected ==
    /\ ft.init \in {"getUserMedia", "loadeddata", "model"}
    /\ ft' = FaceTracker_init_reject(ft)
    /\ ftCall' = FTStep("rejected", ftCall.destroyed, Quiet(ft'))
    /\ UNCHANGED <<oefVars, v3Vars, estVars, camVars, solverVars, appVars>>

\* The browser runs a requested animation frame: its callback calls _detect().
FT_AnimationFrame ==
    /\ ft.nextId <= MaxFrames
    /\ \E id \in ft.frames, outcome \in DetectOutcomes :
           \E r \in {FaceTracker_detectFrame([ft EXCEPT !.frames = @ \ {id}], outcome)} :
               /\ ft' = r.t
               /\ ftCall' = FTStep("frame", ftCall.destroyed, r)
    /\ UNCHANGED <<oefVars, v3Vars, estVars, camVars, solverVars, appVars>>

\* The video shows a new frame.
FT_VideoPlays ==
    /\ ft.video /= None
    /\ Val(ft.video).srcObject
    /\ ft.currentTime < MaxVideoTime
    /\ ft' = [ft EXCEPT !.currentTime = @ + 1]
    /\ ftCall' = FTStep("video", ftCall.destroyed, Quiet(ft'))
    /\ UNCHANGED <<oefVars, v3Vars, estVars, camVars, solverVars, appVars>>

\* destroy() is called, init() having been called.
FT_Destroy ==
    /\ ft.init /= "notCalled"
    /\ ft' = FaceTracker_destroy(ft)
    /\ ftCall' = FTStep("destroy", TRUE, Quiet(ft'))
    /\ UNCHANGED <<oefVars, v3Vars, estVars, camVars, solverVars, appVars>>

NextFT ==
    \/ FT_Init \/ FT_StreamGranted \/ FT_VideoLoaded \/ FT_ModelLoaded
    \/ FT_InitRejected \/ FT_AnimationFrame \/ FT_VideoPlays \/ FT_Destroy

SpecFT == InitFT /\ [][NextFT]_vars

\* C25: once destroy() has been called no step calls detectForVideo, no
\* animation frame is requested and pending, and getLatestLandmarks() is null.
C25_DestroyStops ==
    ftCall.destroyed
        => /\ ~ftCall.detected
           /\ ft.frames = {}
           /\ ft.animFrameId = None
           /\ FaceTracker_getLatestLandmarks(ft) = LM_NULL

\* C26: when detectForVideo throws in a pass of the detection loop, the latest
\* result is the one held before the pass, so getLatestLandmarks() answers as
\* before; onError is called once if set and onLandmarks is not called; and the
\* tracker is still running with the animation frame it requested pending,
\* whose callback calls detectForVideo again once the video shows a new frame.
C26_FailingDetection ==
    ftCall.threw
        => /\ ftCall.detected
           /\ ft.latestResult = ftCall.pre.latestResult
           /\ FaceTracker_getLatestLandmarks(ft)
                  = FaceTracker_getLatestLandmarks(ftCall.pre)
           /\ ftCall.onError = (IF ft.onError THEN 1 ELSE 0)
           /\ ftCall.onLandmarks = 0
           /\ ft.running
           /\ ft.animFrameId /= None
           /\ Val(ft.animFrameId) \in ft.frames
           /\ \A outcome \in DetectOutcomes :
                  FaceTracker_detectFrame(
                      [ft EXCEPT !.frames = @ \ {Val(ft.animFrameId)},
                                 !.currentTime = @ + 1], outcome).detected

\* detectForVideo threw in an animation frame of a tracker with both callbacks
\* set that held the landmarks of FaceA: it holds them still.
C26_Witness ==
    /\ ftCall.threw /\ ftCall.op = "frame"
    /\ ft.onError /\ ft.onLandmarks
    /\ ftCall.onError = 1
    /\ FaceTracker_getLatestLandmarks(ftCall.pre) = FaceA
    /\ FaceTracker_getLatestLandmarks(ft) = FaceA

=============================================================================
